---- MODULE Spec2Model ----
(***************************************************************************)
(* A model of the request pipeline of stac-auth-proxy: the endpoint        *)
(* classifier, the auth enforcer, the CQL2 filter build/apply stages and   *)
(* the CQL2 transaction validator.                                         *)
(*                                                                         *)
(* Strings that the code inspects character by character (the              *)
(* Authorization header, the scope claim, query strings) are sequences of  *)
(* atoms; request paths are sequences of path segments.                    *)
(***************************************************************************)
EXTENDS Integers, Sequences, FiniteSets, TLC

VARIABLES
    \* ---- EnforceAuthMiddleware (middleware/EnforceAuthMiddleware.py)
    default_public,          \* EnforceAuthMiddleware.default_public
    private_endpoints,       \* EnforceAuthMiddleware.private_endpoints
    public_endpoints,        \* EnforceAuthMiddleware.public_endpoints
    allowed_jwt_audiences,   \* EnforceAuthMiddleware.allowed_jwt_audiences
    jwks_client,             \* EnforceAuthMiddleware._jwks_client
    auth_request,            \* the request __call__ last handled
    auth_result,             \* how __call__ ended for it
    \* ---- OpenIdConnectAuth (auth.py)
    dep_request,             \* the arguments of the last valid_token_dependency call
    dep_result,              \* what that call produced
    \* ---- Cql2ValidateTransactionMiddleware
    upstream,                \* the records of the upstream API, by path
    tx,                      \* the requests in the transaction validator
    \* ---- BuildCql2FilterMiddleware, ApplyCql2FilterMiddleware
    collections_filter,      \* BuildCql2FilterMiddleware.collections_filter
    items_filter,            \* BuildCql2FilterMiddleware.items_filter
    pipe,                    \* the requests in the filter stages
    \* ---- find_match (utils/requests.py)
    classified,              \* the last find_match call: its arguments and result
    \* ---- JsonResponseMiddleware (utils/middleware.py)
    cells,                   \* the start_message and body variables of each __call__
    mutator,                 \* the requests in the response mutator
    scope_state,             \* the state of the ASGI scope of each of these requests
    \* ---- the OpenAPI document served (OpenApiMiddleware)
    openapi,                 \* None, or the configuration and what augment_spec made of the document
    \* ---- one document in ProcessLinksMiddleware
    links,                   \* None, or the configuration, the document and how often it was rewritten
    \* ---- one request in the reverse proxy
    proxied,                 \* None, or the request received and the request sent upstream
    \* ---- the OIDC discovery document over the life of the process
    discovery,               \* what the middlewares hold of the discovery document, and their requests
    \* ---- the key set of the PyJWKClient that EnforceAuthMiddleware holds
    key_set,                 \* the cached JWKS, the fetches of the current interval and the requests being validated
    \* ---- check_server_health at startup (utils/lifespan.py)
    health,                  \* the arguments of check_server_health, its position and the probes and sleeps made
    \* ---- RemoveRootPathMiddleware / BasePathMiddleware
    base_path,               \* the base_path of the middleware
    asgi_scope,              \* None, or the scope of the request in the base-path strip stage
    \* ---- MemoryCache (utils/filters.py)
    memory_cache,            \* the MemoryCache, with its key, its ttl and its cache dict
    cache_clock,             \* what time() returns
    cache_log                \* the last call of get or set, the values set so far and the entries the last prune removed

authVars == <<default_public, private_endpoints, public_endpoints,
              allowed_jwt_audiences, jwks_client, auth_request, auth_result,
              dep_request, dep_result>>

txVars == <<upstream, tx>>

pipeVars == <<collections_filter, items_filter, pipe>>

matchVars == <<classified>>

mutatorVars == <<cells, mutator, scope_state>>

openApiVars == <<openapi>>

linksVars == <<links>>

proxyVars == <<proxied>>

discoveryVars == <<discovery>>

keySetVars == <<key_set>>

healthVars == <<health>>

basePathVars == <<base_path, asgi_scope>>

memoryCacheVars == <<memory_cache, cache_clock, cache_log>>

vars == <<authVars, txVars, pipeVars, matchVars, mutatorVars, openApiVars, linksVars, proxyVars, discoveryVars, keySetVars, healthVars, basePathVars, memoryCacheVars>>

\* Python's None, and a value that is not None.
None == [none |-> TRUE]
Some(v) == [some |-> v]

\* The initial state of the parts a specification leaves out.
InitTxIdle ==
    /\ upstream = <<>>
    /\ tx = <<>>

InitPipeIdle ==
    /\ collections_filter = None
    /\ items_filter = None
    /\ pipe = <<>>

InitMatchIdle ==
    /\ classified = None

InitMutatorIdle ==
    /\ cells = <<>>
    /\ mutator = <<>>
    /\ scope_state = <<>>

InitOpenApiIdle ==
    /\ openapi = None

InitLinksIdle ==
    /\ links = None

InitProxyIdle ==
    /\ proxied = None

InitDiscoveryIdle ==
    /\ discovery = <<>>

InitKeySetIdle ==
    /\ key_set = <<>>

InitHealthIdle ==
    /\ health = <<>>

InitBasePathIdle ==
    /\ base_path = <<>>
    /\ asgi_scope = None

InitMemoryCacheIdle ==
    /\ memory_cache = None
    /\ cache_clock = 0
    /\ cache_log = None

InitAuthIdle ==
    /\ default_public = FALSE
    /\ private_endpoints = <<>>
    /\ public_endpoints = <<>>
    /\ allowed_jwt_audiences = None
    /\ jwks_client = None
    /\ auth_request = None
    /\ auth_result = None
    /\ dep_request = None
    /\ dep_result = None

\* What the actions of one part of the proxy leave alone.
notAuthVars == <<txVars, pipeVars, matchVars, mutatorVars, openApiVars, linksVars, proxyVars, discoveryVars, keySetVars, healthVars, basePathVars, memoryCacheVars>>
notTxVars == <<authVars, pipeVars, matchVars, mutatorVars, openApiVars, linksVars, proxyVars, discoveryVars, keySetVars, healthVars, basePathVars, memoryCacheVars>>
notPipeVars == <<authVars, txVars, matchVars, mutatorVars, openApiVars, linksVars, proxyVars, discoveryVars, keySetVars, healthVars, basePathVars, memoryCacheVars>>
notMatchVars == <<authVars, txVars, pipeVars, mutatorVars, openApiVars, linksVars, proxyVars, discoveryVars, keySetVars, healthVars, basePathVars, memoryCacheVars>>
notMutatorVars == <<authVars, txVars, pipeVars, matchVars, openApiVars, linksVars, proxyVars, discoveryVars, keySetVars, healthVars, basePathVars, memoryCacheVars>>
notOpenApiVars == <<authVars, txVars, pipeVars, matchVars, mutatorVars, linksVars, proxyVars, discoveryVars, keySetVars, healthVars, basePathVars, memoryCacheVars>>
notLinksVars == <<authVars, txVars, pipeVars, matchVars, mutatorVars, openApiVars, proxyVars, discoveryVars, keySetVars, healthVars, basePathVars, memoryCacheVars>>
notProxyVars == <<authVars, txVars, pipeVars, matchVars, mutatorVars, openApiVars, linksVars, discoveryVars, keySetVars, healthVars, basePathVars, memoryCacheVars>>
notDiscoveryVars == <<authVars, txVars, pipeVars, matchVars, mutatorVars, openApiVars, linksVars, proxyVars, keySetVars, healthVars, basePathVars, memoryCacheVars>>
notKeySetVars == <<authVars, txVars, pipeVars, matchVars, mutatorVars, openApiVars, linksVars, proxyVars, discoveryVars, healthVars, basePathVars, memoryCacheVars>>
notHealthVars == <<authVars, txVars, pipeVars, matchVars, mutatorVars, openApiVars, linksVars, proxyVars, discoveryVars, keySetVars, basePathVars, memoryCacheVars>>
notBasePathVars == <<authVars, txVars, pipeVars, matchVars, mutatorVars, openApiVars, linksVars, proxyVars, discoveryVars, keySetVars, healthVars, memoryCacheVars>>
notMemoryCacheVars == <<authVars, txVars, pipeVars, matchVars, mutatorVars, openApiVars, linksVars, proxyVars, discoveryVars, keySetVars, healthVars, basePathVars>>

-----------------------------------------------------------------------------
(* Bounds *)

\* Longest scope claim string, in characters.
MaxScopeClaimLen == 3

-----------------------------------------------------------------------------
(* Strings *)

\* str.split(sep) on a sequence of atoms: always at least one part.
RECURSIVE SplitFrom(_, _, _, _)
SplitFrom(s, sep, i, cur) ==
    IF i > Len(s) THEN <<cur>>
    ELSE IF s[i] = sep THEN <<cur>> \o SplitFrom(s, sep, i + 1, <<>>)
    ELSE SplitFrom(s, sep, i + 1, Append(cur, s[i]))

Split(s, sep) == SplitFrom(s, sep, 1, <<>>)

\* Python's `x in seq` for a list.
InList(x, seq) == \E i \in 1..Len(seq) : seq[i] = x

\* Python's `sub in s` for two strings: substring containment.
IsSubstring(sub, s) ==
    \E i \in 1..(Len(s) + 1) :
        /\ i + Len(sub) - 1 <= Len(s)
        /\ SubSeq(s, i, i + Len(sub) - 1) = sub

\* All sequences over S of length at most n.
RECURSIVE SeqsUpTo(_, _)
SeqsUpTo(S, n) ==
    IF n = 0 THEN {<<>>}
    ELSE LET shorter == SeqsUpTo(S, n - 1)
         IN  shorter \cup {Append(s, c) : s \in {t \in shorter : Len(t) = n - 1}, c \in S}

\* str.casefold() / str.lower() on the method names and auth schemes in use.
casefold(s) ==
    CASE s \in {"GET", "get", "Get"} -> "get"
      [] s \in {"POST", "post"} -> "post"
      [] s \in {"PUT", "put"} -> "put"
      [] s \in {"PATCH", "patch"} -> "patch"
      [] s \in {"DELETE", "delete"} -> "delete"
      [] s \in {"Bearer", "bearer", "BEARER"} -> "bearer"
      [] s \in {"Basic", "basic"} -> "basic"
      [] OTHER -> s

-----------------------------------------------------------------------------
(* Paths and the regular expressions matched against them *)

\* A request path is its sequence of segments: /collections/c1 is
\* <<"collections", "c1">>, / is <<>>.
\* A pattern is a sequence of segment matchers, "[^/]+" matching any one
\* (non-empty) segment, and is anchored when it ends in `$`.
AnySeg == "[^/]+"

Pattern(segs, anchored) == [segs |-> segs, anchored |-> anchored]

\* re.match(pattern, path): the pattern must match at the start of the path;
\* only a trailing `$` makes it match the whole path.
re_match(pattern, path) ==
    /\ Len(pattern.segs) <= Len(path)
    /\ \A i \in 1..Len(pattern.segs) :
          pattern.segs[i] = AnySeg \/ pattern.segs[i] = path[i]
    /\ pattern.anchored => Len(path) = Len(pattern.segs)

-----------------------------------------------------------------------------
(* Endpoint classifier: utils/requests.py *)

\* One entry of a method list: "GET", or ("GET", [scopes...]).
Method(name) == [method |-> name, is_tuple |-> FALSE, scopes |-> <<>>]
MethodScopes(name, scopes) == [method |-> name, is_tuple |-> TRUE, scopes |-> scopes]

\* One entry of an EndpointMethods dict (dicts keep insertion order).
Endpoint(pattern, methods) == [pattern |-> pattern, methods |-> methods]

MatchResult(is_private, required_scopes) ==
    [is_private |-> is_private, required_scopes |-> required_scopes]

\* A scan that stops at the first pattern matching the path, whether or not
\* its method list holds the method (`break` where the code has `continue`).
find_match_hits_first_pattern(path, method, endpoints) ==
    LET matching == {i \in 1..Len(endpoints) : re_match(endpoints[i].pattern, path)}
    IN  {ij \in UNION {{<<i, j>> : j \in 1..Len(endpoints[i].methods)} :
                            i \in {k \in matching : \A l \in matching : k <= l}} :
            casefold(method) = casefold(endpoints[ij[1]].methods[ij[2]].method)}

\* The (pattern index, method index) pairs the two nested loops of find_match
\* would return at.
find_match_hits(path, method, endpoints) ==
    {ij \in UNION {{<<i, j>> : j \in 1..Len(endpoints[i].methods)} :
                        i \in 1..Len(endpoints)} :
        /\ re_match(endpoints[ij[1]].pattern, path)
        /\ casefold(method) = casefold(endpoints[ij[1]].methods[ij[2]].method)}

\* A classifier consulting the map that find_match leaves alone.
find_match_other_map(path, method, private, public, default_pub) ==
    LET endpoints == IF default_pub THEN public ELSE private
        hits == find_match_hits(path, method, endpoints)
    IN  IF hits = {} THEN MatchResult(~default_pub, <<>>)
        ELSE LET first == CHOOSE h \in hits :
                    \A g \in hits : h[1] < g[1] \/ (h[1] = g[1] /\ h[2] <= g[2])
                 entry == endpoints[first[1]].methods[first[2]]
             IN  MatchResult(default_pub,
                             IF entry.is_tuple THEN entry.scopes ELSE <<>>)

\* find_match: the first (pattern, method entry) of the consulted map that the
\* nested loops reach, or the default when they reach none.
find_match(path, method, private, public, default_pub) ==
    LET endpoints == IF default_pub THEN private ELSE public
        hits == find_match_hits(path, method, endpoints)
    IN  IF hits = {} THEN MatchResult(~default_pub, <<>>)
        ELSE LET first == CHOOSE h \in hits :
                    \A g \in hits : h[1] < g[1] \/ (h[1] = g[1] /\ h[2] <= g[2])
                 entry == endpoints[first[1]].methods[first[2]]
             IN  MatchResult(default_pub,
                             IF entry.is_tuple THEN entry.scopes ELSE <<>>)

-----------------------------------------------------------------------------
(* Tokens and PyJWT *)

\* Scope names are strings: "c" stands for collections:create, "cx" for
\* collections:createbutnotcreate (it has "c" as a proper prefix).
ScopeChars == {"c", "x", " "}
ScopeClaims == SeqsUpTo(ScopeChars, MaxScopeClaimLen)

Token(form, kid_known, signature_ok, alg, expired, aud, has_scope, scope) ==
    [form |-> form, kid_known |-> kid_known, signature_ok |-> signature_ok,
     alg |-> alg, expired |-> expired, aud |-> aud,
     has_scope |-> has_scope, scope |-> scope]

\* A signed, unexpired RS256 token of a known key.
GoodToken(aud, has_scope, scope) ==
    Token("jwt", TRUE, TRUE, "RS256", FALSE, aud, has_scope, scope)

\* What a string that is no JWT decodes as.
GarbageToken == Token("garbage", FALSE, FALSE, "RS256", FALSE, {}, FALSE, <<>>)

Tokens ==
    {GoodToken({}, TRUE, s) : s \in ScopeClaims}
    \cup {GoodToken(a, hs, <<"c">>) : a \in {{}, {"aud1"}, {"aud2"}, {"aud1", "aud2"}},
                                      hs \in BOOLEAN}
    \cup {GarbageToken,
          Token("jwt", FALSE, TRUE, "RS256", FALSE, {}, TRUE, <<"c">>),
          Token("jwt", TRUE, FALSE, "RS256", FALSE, {}, TRUE, <<"c">>),
          Token("jwt", TRUE, TRUE, "HS256", FALSE, {}, TRUE, <<"c">>),
          Token("jwt", TRUE, TRUE, "RS256", TRUE, {}, TRUE, <<"c">>)}

\* PyJWKClient.get_signing_key_from_jwt: an unparseable token raises
\* DecodeError; a kid that is not in the key set raises PyJWKClientError,
\* which is a PyJWTError but no InvalidTokenError.
get_signing_key_from_jwt(token) ==
    IF token.form # "jwt" THEN "DecodeError"
    ELSE IF ~token.kid_known THEN "PyJWKClientError"
    ELSE "ok"

\* An audience check that looks at the aud claim only when there is an
\* audience.
validate_aud_alt(token_aud, audience) ==
    IF audience = None THEN TRUE ELSE token_aud \cap audience.some # {}

\* PyJWT's audience check (jwt.decode with verify_aud on, its default):
\* with audience=None a token is valid only if it has no (non-empty) aud
\* claim; with an audience it must carry one of the audiences.
validate_aud(token_aud, audience) ==
    IF audience = None THEN token_aud = {} ELSE token_aud \cap audience.some # {}

\* jwt.decode(token, key, algorithms=["RS256"], audience=...).
jwt_decode(token, audience) ==
    IF token.alg # "RS256" THEN "InvalidAlgorithmError"
    ELSE IF ~token.signature_ok THEN "InvalidSignatureError"
    ELSE IF token.expired THEN "ExpiredSignatureError"
    ELSE IF ~validate_aud(token.aud, audience) THEN "InvalidAudienceError"
    ELSE "ok"

\* The exceptions of PyJWT that are InvalidTokenError or DecodeError.
InvalidTokenErrors ==
    {"DecodeError", "InvalidAlgorithmError", "InvalidSignatureError",
     "ExpiredSignatureError", "InvalidAudienceError"}

-----------------------------------------------------------------------------
(* The Authorization header *)

Ch(s) == [ch |-> s]
Tk(t) == [tok |-> t]
Space == Ch(" ")

BearerHeaders ==
    {Some(<<Ch(scheme), Space, Tk(t)>>) : scheme \in {"Bearer", "bearer"}, t \in Tokens}

MalformedHeaders ==
    LET t == GoodToken({}, TRUE, <<"c">>)
    IN  {Some(<<Ch("Bearer")>>),
         Some(<<Ch("Basic"), Space, Tk(t)>>),
         Some(<<Ch("Bearer"), Space, Space, Tk(t)>>),
         Some(<<Ch("Bearer"), Space, Tk(t), Space, Ch("x")>>),
         Some(<<Tk(t)>>)}

\* None: no Authorization header; Some(<<>>): an empty one.
AuthHeaders == {None, Some(<<>>)} \cup MalformedHeaders \cup BearerHeaders

\* token_parts[0].lower()
scheme_lower(part) ==
    IF Len(part) = 1 /\ "ch" \in DOMAIN part[1] THEN casefold(part[1].ch) ELSE "other"

\* The token that the second part of the header is.
token_of(part) ==
    IF Len(part) = 1 /\ "tok" \in DOMAIN part[1] THEN part[1].tok ELSE GarbageToken

-----------------------------------------------------------------------------
(* EnforceAuthMiddleware: middleware/EnforceAuthMiddleware.py *)

\* What validate_token does: return a payload, raise an HTTPException, or
\* raise another exception.  jwks is the value of _jwks_client afterwards.
Returned(payload, jwks) ==
    [kind |-> "return", payload |-> payload, status_code |-> 0, detail |-> "",
     headers |-> {}, exc |-> "", jwks |-> jwks]
HTTPException(status_code, detail, headers, jwks) ==
    [kind |-> "HTTPException", payload |-> None, status_code |-> status_code,
     detail |-> detail, headers |-> headers, exc |-> "HTTPException", jwks |-> jwks]
Raised(exc, jwks) ==
    [kind |-> "raise", payload |-> None, status_code |-> 0, detail |-> "",
     headers |-> {}, exc |-> exc, jwks |-> jwks]

\* A response header.
Header(name, value) == [name |-> name, value |-> value]
WWWAuthenticateBearer == Header("WWW-Authenticate", <<"Bearer">>)
\* WWW-Authenticate: Bearer scope="<scope>"
WWWAuthenticateScope(scope) == Header("WWW-Authenticate", <<"Bearer", "scope", scope>>)

\* The outcomes of the httpx.get of the OIDC configuration.
OidcOutcomes == {"ok", "HTTPStatusError", "RequestError"}

\* The scope check of validate_token: the first required scope that is not
\* one of the space-separated entries of the scope claim, if any.
missing_scopes(required_scopes, scope_claim) ==
    {i \in 1..Len(required_scopes) :
        ~InList(required_scopes[i], Split(scope_claim, " "))}

check_scopes(required_scopes, payload, jwks) ==
    IF Len(required_scopes) = 0 THEN Returned(Some(payload), jwks)
    ELSE IF ~payload.has_scope THEN Raised("KeyError", jwks)
    ELSE LET missing == missing_scopes(required_scopes, payload.scope)
         IN  IF missing = {} THEN Returned(Some(payload), jwks)
             ELSE LET i == CHOOSE k \in missing : \A m \in missing : k <= m
                  IN  HTTPException(401, "Not enough permissions",
                                    {WWWAuthenticateScope(required_scopes[i])}, jwks)

\* The `if not auth_header` branch without its auto_error test: None for
\* every endpoint.
not_authenticated_lenient(auto_error, jwks) == Returned(None, jwks)

\* The `if not auth_header` branch of validate_token.
not_authenticated(auto_error, jwks) ==
    IF auto_error THEN HTTPException(403, "Not authenticated", {}, jwks)
    ELSE Returned(None, jwks)

\* validate_token, with the jwks_client property it reads.  oidc is the
\* outcome of the OIDC configuration request, made only when _jwks_client is
\* not yet set.
validate_token(auth_header, auto_error, required_scopes, audience, jwks, oidc) ==
    IF auth_header = None \/ auth_header.some = <<>> THEN
        not_authenticated(auto_error, jwks)
    ELSE
    LET token_parts == Split(auth_header.some, Space) IN
    IF Len(token_parts) # 2 \/ scheme_lower(token_parts[1]) # "bearer" THEN
        HTTPException(401, "Could not validate credentials", {WWWAuthenticateBearer}, jwks)
    ELSE
    LET token == token_of(token_parts[2]) IN
    IF jwks = None /\ oidc # "ok" THEN Raised("OidcFetchError", jwks)
    ELSE
    LET client == Some("PyJWKClient")
        key == get_signing_key_from_jwt(token)
        decoded == IF key = "ok" THEN jwt_decode(token, audience) ELSE key
    IN  IF decoded \in InvalidTokenErrors THEN
            HTTPException(401, "Could not validate credentials",
                          {WWWAuthenticateBearer}, client)
        ELSE IF decoded # "ok" THEN Raised(decoded, client)
        ELSE check_scopes(required_scopes, token, client)

\* How __call__ ended: it awaited the next app with request.state.payload
\* set, it sent a response, or an exception left it.
CalledNext(payload) ==
    [kind |-> "next", payload |-> payload, status_code |-> 0, body |-> None,
     headers |-> {}, exc |-> ""]
Responded(status_code, body, headers) ==
    [kind |-> "response", payload |-> None, status_code |-> status_code,
     body |-> body, headers |-> headers, exc |-> ""]
Escaped(exc) ==
    [kind |-> "raised", payload |-> None, status_code |-> 0, body |-> None,
     headers |-> {}, exc |-> exc]
Idle ==
    [kind |-> "idle", payload |-> None, status_code |-> 0, body |-> None,
     headers |-> {}, exc |-> ""]

\* JSONResponse({"detail": e.detail}, status_code=e.status_code): the
\* headers of the HTTPException are not handed to the response.
Detail(text) == Some([detail |-> text])

EnforceAuthMiddleware_result(match, validated) ==
    CASE validated.kind = "HTTPException" ->
            Responded(validated.status_code, Detail(validated.detail), {})
      [] validated.kind = "raise" -> Escaped(validated.exc)
      [] OTHER -> CalledNext(validated.payload)

AuthRequest(path, method, authorization) ==
    [path |-> path, method |-> method, authorization |-> authorization]

\* EnforceAuthMiddleware.__call__ for the http request that arrived.
EnforceAuthMiddleware_call(oidc) ==
    LET match == find_match(auth_request.path, auth_request.method,
                            private_endpoints, public_endpoints, default_public)
        validated == validate_token(auth_request.authorization, match.is_private,
                                    match.required_scopes, allowed_jwt_audiences,
                                    jwks_client, oidc)
    IN  /\ auth_request # None
        /\ auth_result = Idle
        /\ auth_result' = EnforceAuthMiddleware_result(match, validated)
        /\ jwks_client' = validated.jwks
        /\ UNCHANGED <<default_public, private_endpoints, public_endpoints,
                       allowed_jwt_audiences, auth_request, dep_request, dep_result, notAuthVars>>

-----------------------------------------------------------------------------
(* OpenIdConnectAuth: auth.py *)

\* required_scopes.scope_str: the required scopes joined by spaces.
RECURSIVE scope_str(_)
scope_str(scopes) ==
    IF Len(scopes) = 0 THEN <<>>
    ELSE IF Len(scopes) = 1 THEN scopes[1]
    ELSE scopes[1] \o <<" ">> \o scope_str(Tail(scopes))

\* The scope loop of valid_token_dependency: `scope not in payload["scope"]`
\* with payload["scope"] a string.
dependency_missing_scopes(required_scopes, scope_claim) ==
    {i \in 1..Len(required_scopes) : ~IsSubstring(required_scopes[i], scope_claim)}

\* OpenIdConnectAuth._build(auto_error).valid_token_dependency; the
\* jwks_client was made by __post_init__.
valid_token_dependency(auth_header, required_scopes, auto_error, audience) ==
    LET client == Some("PyJWKClient") IN
    IF auth_header = None \/ auth_header.some = <<>> THEN
        IF auto_error THEN HTTPException(403, "Not authenticated", {}, client)
        ELSE Returned(None, client)
    ELSE
    LET token_parts == Split(auth_header.some, Space) IN
    IF Len(token_parts) # 2 \/ scheme_lower(token_parts[1]) # "bearer" THEN
        HTTPException(401, "Could not validate credentials", {WWWAuthenticateBearer}, client)
    ELSE
    LET token == token_of(token_parts[2])
        key == get_signing_key_from_jwt(token)
        decoded == IF key = "ok" THEN jwt_decode(token, audience) ELSE key
    IN  IF decoded \in InvalidTokenErrors THEN
            HTTPException(401, "Could not validate credentials",
                          {WWWAuthenticateBearer}, client)
        ELSE IF decoded # "ok" THEN Raised(decoded, client)
        ELSE IF Len(required_scopes) = 0 THEN Returned(Some(token), client)
        ELSE IF ~token.has_scope THEN Raised("KeyError", client)
        ELSE IF dependency_missing_scopes(required_scopes, token.scope) = {} THEN
            Returned(Some(token), client)
        ELSE IF auto_error THEN
            HTTPException(401, "Not enough permissions",
                          {WWWAuthenticateScope(scope_str(required_scopes))}, client)
        ELSE Returned(None, client)

DependencyRequest(auth_header, required_scopes, auto_error) ==
    [auth_header |-> auth_header, required_scopes |-> required_scopes,
     auto_error |-> auto_error]

\* One call of the dependency.
valid_token_dependency_call ==
    /\ dep_request # None
    /\ dep_result = Idle
    /\ dep_result' = valid_token_dependency(dep_request.auth_header,
                                            dep_request.required_scopes,
                                            dep_request.auto_error,
                                            allowed_jwt_audiences)
    /\ UNCHANGED <<default_public, private_endpoints, public_endpoints,
                   allowed_jwt_audiences, jwks_client, auth_request, auth_result,
                   dep_request, notAuthVars>>

-----------------------------------------------------------------------------
(* Configurations and requests of the auth enforcer *)

ScopeCreate == <<"c">>
ScopeOther == <<"x">>

\* Settings.private_endpoints, the default (config.py).
DefaultPrivateEndpoints ==
    << Endpoint(Pattern(<<"collections">>, TRUE), <<Method("POST")>>),
       Endpoint(Pattern(<<"collections", AnySeg>>, TRUE),
                <<Method("PUT"), Method("PATCH"), Method("DELETE")>>),
       Endpoint(Pattern(<<"collections", AnySeg, "items">>, TRUE), <<Method("POST")>>),
       Endpoint(Pattern(<<"collections", AnySeg, "items", AnySeg>>, TRUE),
                <<Method("PUT"), Method("PATCH"), Method("DELETE")>>),
       Endpoint(Pattern(<<"collections", AnySeg, "bulk_items">>, TRUE), <<Method("POST")>>) >>

\* Settings.public_endpoints, the default (config.py).
DefaultPublicEndpoints ==
    << Endpoint(Pattern(<<"api.html">>, TRUE), <<Method("GET")>>),
       Endpoint(Pattern(<<"api">>, TRUE), <<Method("GET")>>) >>

Config(default_pub, private, public) ==
    [default_public |-> default_pub, private_endpoints |-> private,
     public_endpoints |-> public]

\* The default settings with either default_public, and settings whose
\* rules carry required scopes (as tests/test_authn.py sets them).
Configs ==
    { Config(FALSE, DefaultPrivateEndpoints, DefaultPublicEndpoints),
      Config(TRUE, DefaultPrivateEndpoints, DefaultPublicEndpoints),
      Config(TRUE,
             <<Endpoint(Pattern(<<>>, FALSE), <<MethodScopes("POST", <<ScopeCreate>>)>>)>>,
             <<>>),
      Config(TRUE,
             <<Endpoint(Pattern(<<"collections">>, TRUE),
                        <<MethodScopes("post", <<ScopeCreate, ScopeOther>>),
                          MethodScopes("GET", <<>>)>>)>>,
             <<>>),
      Config(FALSE,
             <<>>,
             <<Endpoint(Pattern(<<"search">>, TRUE),
                        <<MethodScopes("GET", <<ScopeCreate>>)>>)>>) }

AudienceSettings == {None, Some({"aud1"})}

AuthPaths == {<<>>, <<"api">>, <<"search">>, <<"collections">>,
              <<"collections", "c1", "items">>}
AuthMethods == {"GET", "POST"}

RequiredScopeLists == {<<>>, <<ScopeCreate>>, <<ScopeCreate, ScopeOther>>}

InitAuth ==
    /\ \E c \in Configs :
          /\ default_public = c.default_public
          /\ private_endpoints = c.private_endpoints
          /\ public_endpoints = c.public_endpoints
    /\ allowed_jwt_audiences \in AudienceSettings
    /\ jwks_client = None
    /\ auth_request = None
    /\ auth_result = Idle
    /\ dep_request = None
    /\ dep_result = Idle
    /\ InitTxIdle
    /\ InitPipeIdle
    /\ InitMatchIdle
    /\ InitMutatorIdle
    /\ InitOpenApiIdle
    /\ InitLinksIdle
    /\ InitProxyIdle
    /\ InitDiscoveryIdle
    /\ InitKeySetIdle
    /\ InitHealthIdle
    /\ InitBasePathIdle
    /\ InitMemoryCacheIdle

\* A request reaches the auth enforcer.
AuthArrive ==
    /\ auth_request = None
    /\ \E path \in AuthPaths, method \in AuthMethods, authorization \in AuthHeaders :
          auth_request' = AuthRequest(path, method, authorization)
    /\ UNCHANGED <<default_public, private_endpoints, public_endpoints,
                   allowed_jwt_audiences, jwks_client, auth_result,
                   dep_request, dep_result, notAuthVars>>

EnforceAuth == \E oidc \in OidcOutcomes : EnforceAuthMiddleware_call(oidc)

\* The request is over; its state is dropped.
AuthDone ==
    /\ auth_result # Idle
    /\ auth_request' = None
    /\ auth_result' = Idle
    /\ UNCHANGED <<default_public, private_endpoints, public_endpoints,
                   allowed_jwt_audiences, jwks_client, dep_request, dep_result, notAuthVars>>

NextAuth == AuthArrive \/ EnforceAuth \/ AuthDone

\* The auth enforcer handling one request after another.
SpecAuth == InitAuth /\ [][NextAuth]_vars

\* A route guarded by the dependency is requested.
DependencyArrive ==
    /\ dep_request = None
    /\ \E auth_header \in AuthHeaders, required_scopes \in RequiredScopeLists,
          auto_error \in BOOLEAN :
          dep_request' = DependencyRequest(auth_header, required_scopes, auto_error)
    /\ UNCHANGED <<default_public, private_endpoints, public_endpoints,
                   allowed_jwt_audiences, jwks_client, auth_request, auth_result,
                   dep_result, notAuthVars>>

ValidTokenDependency == valid_token_dependency_call

DependencyDone ==
    /\ dep_result # Idle
    /\ dep_request' = None
    /\ dep_result' = Idle
    /\ UNCHANGED <<default_public, private_endpoints, public_endpoints,
                   allowed_jwt_audiences, jwks_client, auth_request, auth_result, notAuthVars>>

NextDependency == DependencyArrive \/ ValidTokenDependency \/ DependencyDone

\* The token dependency of auth.py called again and again.
SpecDependency == InitAuth /\ [][NextDependency]_vars

-----------------------------------------------------------------------------
(* Properties of the auth enforcer *)

\* __call__ has handled the request that arrived.
AuthHandled == auth_request # None /\ auth_result # Idle

\* The classification of the request at hand.
AuthMatch ==
    find_match(auth_request.path, auth_request.method,
               private_endpoints, public_endpoints, default_public)

\* The request carries `Bearer <token>` (in either case of the scheme).
AuthIsBearer == auth_request.authorization \in BearerHeaders
AuthToken == auth_request.authorization.some[3].tok

\* A token that is valid apart from its audience: a JWT signed with RS256 by
\* a known key, its signature good, not expired.
OtherwiseValid(t) ==
    /\ t.form = "jwt" /\ t.kid_known /\ t.signature_ok
    /\ t.alg = "RS256" /\ ~t.expired

\* The entries of a scope claim: its maximal runs without a space.
ScopeEntries(claim) ==
    {SubSeq(claim, i, j) : i \in 1..(Len(claim) + 1), j \in 0..Len(claim)}
    \cap {e \in SeqsUpTo(ScopeChars \ {" "}, Len(claim)) :
            \E i \in 1..(Len(claim) + 1) :
                /\ i + Len(e) - 1 <= Len(claim)
                /\ SubSeq(claim, i, i + Len(e) - 1) = e
                /\ (i = 1 \/ claim[i - 1] = " ")
                /\ (i + Len(e) > Len(claim) \/ claim[i + Len(e)] = " ")}

\* Every required scope is an entry of the token's scope claim.
HasEveryScope(required_scopes, t) ==
    \A k \in 1..Len(required_scopes) :
        t.has_scope /\ required_scopes[k] \in ScopeEntries(t.scope)

\* The Authorization header yielded a token that validated and that has
\* every required scope.
AuthAuthorized ==
    /\ AuthIsBearer
    /\ OtherwiseValid(AuthToken)
    /\ validate_aud(AuthToken.aud, allowed_jwt_audiences)
    /\ HasEveryScope(AuthMatch.required_scopes, AuthToken)

\* C1: for a request classified private, the next stage is invoked only when
\* the Authorization header yielded a token that validated and that has every
\* required scope; in every other case the middleware itself answers 401 or
\* 403 and the next stage is not invoked.
C1_PrivateForwardedOnlyIfAuthorized ==
    (AuthHandled /\ AuthMatch.is_private) =>
        /\ auth_result.kind = "next" => AuthAuthorized
        /\ ~AuthAuthorized =>
              /\ auth_result.kind = "response"
              /\ auth_result.status_code \in {401, 403}

\* The part of C1 that the code keeps: a private request reaches the next
\* stage only when it is authorized.
PrivateNextOnlyIfAuthorized ==
    (AuthHandled /\ AuthMatch.is_private /\ auth_result.kind = "next") => AuthAuthorized

C7_WitnessPublic ==
    /\ AuthHandled
    /\ auth_request.authorization = None
    /\ ~AuthMatch.is_private
    /\ auth_result.kind = "next"

\* C9: every 401 the auth enforcer sends carries WWW-Authenticate: `Bearer`
\* when the header is malformed or the token invalid, `Bearer scope="<s>"`
\* naming a missing scope s when a required scope is absent.
C9_401CarriesWWWAuthenticate ==
    (AuthHandled /\ auth_result.kind = "response" /\ auth_result.status_code = 401) =>
        IF auth_result.body = Some([detail |-> "Not enough permissions"])
        THEN \E k \in 1..Len(AuthMatch.required_scopes) :
                /\ AuthMatch.required_scopes[k] \notin ScopeEntries(AuthToken.scope)
                /\ WWWAuthenticateScope(AuthMatch.required_scopes[k]) \in auth_result.headers
        ELSE WWWAuthenticateBearer \in auth_result.headers

\* The token of the request was accepted: the next stage runs with its claims.
AuthAccepted ==
    /\ auth_result.kind = "next"
    /\ auth_result.payload = Some(AuthToken)

\* The request was answered 401 because its token did not validate.
AuthTokenRejected ==
    /\ auth_result.kind = "response"
    /\ auth_result.status_code = 401
    /\ auth_result.body = Some([detail |-> "Could not validate credentials"])

\* C10, as claimed: with no audiences configured an otherwise valid RS256
\* token is not rejected, whether or not it carries an aud claim.
C10_AudUncheckedWithoutAudiences ==
    (/\ AuthHandled /\ AuthIsBearer /\ OtherwiseValid(AuthToken)
     /\ allowed_jwt_audiences = None /\ jwks_client # None)
        => ~AuthTokenRejected

\* C10, amended: the aud claim is checked whatever the configuration.  With
\* no audiences configured a token is accepted only if it carries no aud
\* claim, and an otherwise valid token that carries one is answered 401 (its
\* signing key obtained); with audiences configured a token is accepted only
\* if its aud is one of them.
C10_AudAlwaysChecked ==
    (AuthHandled /\ AuthIsBearer) =>
        /\ AuthAccepted =>
              IF allowed_jwt_audiences = None THEN AuthToken.aud = {}
              ELSE AuthToken.aud \cap allowed_jwt_audiences.some # {}
        /\ (/\ OtherwiseValid(AuthToken) /\ jwks_client # None
            /\ allowed_jwt_audiences = None /\ AuthToken.aud # {})
              => AuthTokenRejected
        /\ (/\ OtherwiseValid(AuthToken) /\ jwks_client # None
            /\ allowed_jwt_audiences = None /\ AuthToken.aud = {})
              => ~AuthTokenRejected

C10_Witness ==
    /\ AuthHandled /\ AuthIsBearer /\ OtherwiseValid(AuthToken)
    /\ allowed_jwt_audiences = None
    /\ AuthToken.aud # {}
    /\ AuthTokenRejected

-----------------------------------------------------------------------------
(* Properties of the token dependency of auth.py *)

DependencyHandled == dep_request # None /\ dep_result # Idle
DependencyIsBearer == dep_request.auth_header \in BearerHeaders
DependencyToken == dep_request.auth_header.some[3].tok

\* C8: a validated token is accepted for required scopes if and only if each
\* required scope equals one of the space-separated entries of its scope
\* claim; otherwise (a required scope that is only a substring of an entry,
\* an empty scope claim) the answer is 401.
C8_ScopesMatchExactly ==
    (/\ DependencyHandled /\ DependencyIsBearer
     /\ OtherwiseValid(DependencyToken)
     /\ validate_aud(DependencyToken.aud, allowed_jwt_audiences)
     /\ DependencyToken.has_scope
     /\ Len(dep_request.required_scopes) > 0
     /\ dep_request.auto_error)
        => IF HasEveryScope(dep_request.required_scopes, DependencyToken)
           THEN dep_result.kind = "return"
                /\ dep_result.payload = Some(DependencyToken)
           ELSE dep_result.kind = "HTTPException"
                /\ dep_result.status_code = 401

\* The same statement of EnforceAuthMiddleware.validate_token, which splits
\* the claim before it looks for a scope.
EnforceAuthScopesMatchExactly ==
    (/\ AuthHandled /\ AuthIsBearer
     /\ OtherwiseValid(AuthToken)
     /\ validate_aud(AuthToken.aud, allowed_jwt_audiences)
     /\ jwks_client # None
     /\ AuthToken.has_scope
     /\ Len(AuthMatch.required_scopes) > 0)
        => IF HasEveryScope(AuthMatch.required_scopes, AuthToken)
           THEN AuthAccepted
           ELSE auth_result.kind = "response" /\ auth_result.status_code = 401

-----------------------------------------------------------------------------
(* JSON documents and CQL2 *)

\* JSON values: a string, or an object (a function from keys to values).
Str(s) == [str |-> s]
Obj(f) == [obj |-> f]
IsDict(v) == "obj" \in DOMAIN v
EmptyObj == Obj(<<>>)

Keys(v) == DOMAIN v.obj

\* The object with the one key k.
Single(k, v) == Obj([x \in {k} |-> v])

\* {**a, **b} for two objects.
Spread(a, b) ==
    Obj([k \in Keys(a) \cup Keys(b) |-> IF k \in Keys(b) THEN b.obj[k] ELSE a.obj[k]])

\* A CQL2 expression `property = 'value'`: opaque to the proxy but for
\* matches().
Cql2Eq(property, value) == [op |-> "=", property |-> property, value |-> value]

\* Expr.matches(doc): the expression reduced against the document; it does
\* not reduce to a boolean when the document lacks the property.
matches(filter, doc) ==
    IF ~IsDict(doc) \/ filter.property \notin Keys(doc) THEN "error"
    ELSE IF doc.obj[filter.property] = Str(filter.value) THEN "true"
    ELSE "false"

-----------------------------------------------------------------------------
(* Cql2ValidateTransactionMiddleware *)

\* _deep_merge(base, override)
RECURSIVE deep_merge(_, _)
deep_merge(base, override) ==
    Obj([k \in Keys(base) \cup Keys(override) |->
            IF k \notin Keys(override) THEN base.obj[k]
            ELSE IF /\ k \in Keys(base)
                    /\ IsDict(base.obj[k])
                    /\ IsDict(override.obj[k])
                 THEN deep_merge(base.obj[k], override.obj[k])
                 ELSE override.obj[k]])

\* Request bodies, as bytes: none, bytes that are no JSON, or a JSON text.
EmptyBody == [bytes |-> "empty"]
InvalidJsonBody == [bytes |-> "not json"]
JsonBody(doc) == [bytes |-> "json", doc |-> doc]

\* The transaction endpoint patterns of the middleware.
item_create_pattern == Pattern(<<"collections", AnySeg, "items">>, TRUE)
item_modify_pattern == Pattern(<<"collections", AnySeg, "items", AnySeg>>, TRUE)
collection_create_pattern == Pattern(<<"collections">>, TRUE)
collection_modify_pattern == Pattern(<<"collections", AnySeg>>, TRUE)

IsCreatePath(path) ==
    re_match(item_create_pattern, path) \/ re_match(collection_create_pattern, path)
IsModifyPath(path) ==
    re_match(item_modify_pattern, path) \/ re_match(collection_modify_pattern, path)

\* How the middleware ended for a request: the next app awaited with a body
\* to receive, a JSONResponse sent, or an exception.
\* A response is JSONResponse({"code": ..., "description": ...}, status_code).
TxNone ==
    [kind |-> "none", status_code |-> 0, code |-> "", description |-> "",
     body |-> EmptyBody, exc |-> ""]
TxNext(body) ==
    [kind |-> "next", status_code |-> 0, code |-> "", description |-> "",
     body |-> body, exc |-> ""]
TxResponse(status_code, code, description) ==
    [kind |-> "response", status_code |-> status_code, code |-> code,
     description |-> description, body |-> EmptyBody, exc |-> ""]
TxRaised(exc) ==
    [kind |-> "raised", status_code |-> 0, code |-> "", description |-> "",
     body |-> EmptyBody, exc |-> exc]

\* A request in the middleware.  fetched: whether _fetch_existing was called,
\* fetch: how that call ended ("ok": it returned; "HTTPError": it raised),
\* and what it returned.
TxRequest(pc, method, path, body, filter) ==
    [pc |-> pc, method |-> method, path |-> path, body |-> body,
     cql2_filter |-> filter, fetched |-> FALSE, fetch |-> "", existing |-> None,
     result |-> TxNone]

TxIdle == TxRequest("idle", "GET", <<>>, EmptyBody, None)

\* The check of a body (or of the merged record) against the filter, and
\* what follows: forward the original body, 403, or the exception of
\* matches().
validate_new(filter, doc, body, description) ==
    CASE matches(filter, doc) = "error" -> TxRaised("cql2 error")
      [] matches(filter, doc) = "false" -> TxResponse(403, "ForbiddenError", description)
      [] OTHER -> TxNext(body)

\* A fetched record that is never looked at.
validate_existing_alt(filter, fetch, existing) == None

\* A check that tells a record outside the filter (403) from an absent one.
validate_existing_forbidden(filter, fetch, existing) ==
    IF fetch = "HTTPError"
    THEN Some(TxResponse(502, "UpstreamError", "Failed to fetch record from upstream."))
    ELSE IF existing = None
    THEN Some(TxResponse(404, "NotFoundError", "Record not found."))
    ELSE CASE matches(filter, existing.some) = "error" -> Some(TxRaised("cql2 error"))
           [] matches(filter, existing.some) = "false" ->
                 Some(TxResponse(403, "ForbiddenError",
                                 "Resource does not match access filter."))
           [] OTHER -> None

\* The check of the fetched record against the filter: None when it passes.
validate_existing(filter, fetch, existing) ==
    IF fetch = "HTTPError"
    THEN Some(TxResponse(502, "UpstreamError", "Failed to fetch record from upstream."))
    ELSE IF existing = None
    THEN Some(TxResponse(404, "NotFoundError", "Record not found."))
    ELSE CASE matches(filter, existing.some) = "error" -> Some(TxRaised("cql2 error"))
           [] matches(filter, existing.some) = "false" ->
                 Some(TxResponse(404, "NotFoundError", "Record not found."))
           [] OTHER -> None

\* json.loads(body) if body else {}
body_json(body) == IF body = EmptyBody THEN EmptyObj ELSE body.doc

\* _handle_create, once the body is read.
handle_create(filter, body) ==
    IF body = InvalidJsonBody
    THEN TxResponse(400, "ParseError", "Request body must be valid JSON.")
    ELSE validate_new(filter, body_json(body), body,
                      "Resource does not match access filter.")

\* An update handler that checks the body of a PATCH as it checks that of a
\* PUT, without merging it into the existing record.
handle_update_unmerged(filter, method, body, fetch, existing) ==
    LET rejected == validate_existing(filter, fetch, existing) IN
    IF rejected # None THEN rejected.some
    ELSE validate_new(filter, body_json(body), body,
                      "Updated resource does not match access filter.")

\* _handle_update, from the fetch of the existing record on.
handle_update(filter, method, body, fetch, existing) ==
    LET rejected == validate_existing(filter, fetch, existing) IN
    IF rejected # None THEN rejected.some
    ELSE LET merged == IF method = "PATCH"
                       THEN deep_merge(existing.some, body_json(body))
                       ELSE body_json(body)
         IN  validate_new(filter, merged, body,
                          "Updated resource does not match access filter.")

\* _handle_delete, from the fetch of the existing record on.
handle_delete(filter, body, fetch, existing) ==
    LET rejected == validate_existing(filter, fetch, existing) IN
    IF rejected # None THEN rejected.some ELSE TxNext(body)

\* The requests the middleware can hold at a time.
TxRequestIds == {"r1"}

\* The upstream records the model follows.
TxItemPath == <<"collections", "c1", "items", "i1">>
TxCollectionPath == <<"collections", "c1">>
TxRecordPaths == {TxItemPath, TxCollectionPath}

TxPaths == TxRecordPaths \cup
           {<<"collections">>, <<"collections", "c1", "items">>,
            <<"collections", "c1", "bulk_items">>, <<"search">>}
TxMethods == {"GET", "POST", "PUT", "PATCH", "DELETE"}

\* The filter of the tests: collection = 'allowed'.
TxFilter == Cql2Eq("collection", "allowed")
TxFilters == {None, Some(TxFilter)}

OldProperties == Obj([k \in {"name", "count"} |->
                        IF k = "name" THEN Str("old") ELSE Str("5")])
DocAllowed == Obj([k \in {"collection", "properties"} |->
                     IF k = "collection" THEN Str("allowed") ELSE OldProperties])
DocDenied == Obj([k \in {"collection", "properties"} |->
                    IF k = "collection" THEN Str("denied") ELSE OldProperties])
PatchName == Single("properties", Single("name", Str("new")))
PatchDenied == Single("collection", Str("denied"))

\* The body of a bulk insert: {"items": {"i2": <item>}}.
BulkDenied == Single("items", Single("i2", DocDenied))

TxBodies == {EmptyBody, InvalidJsonBody} \cup
            {JsonBody(d) : d \in {DocAllowed, DocDenied, PatchName, PatchDenied,
                                  BulkDenied}}

InitTx ==
    /\ upstream \in [TxRecordPaths -> {None, Some(DocAllowed), Some(DocDenied)}]
    /\ tx = [r \in TxRequestIds |-> TxIdle]
    /\ InitAuthIdle
    /\ InitPipeIdle
    /\ InitMatchIdle
    /\ InitMutatorIdle
    /\ InitOpenApiIdle
    /\ InitLinksIdle
    /\ InitProxyIdle
    /\ InitDiscoveryIdle
    /\ InitKeySetIdle
    /\ InitHealthIdle
    /\ InitBasePathIdle
    /\ InitMemoryCacheIdle

\* A request reaches the middleware, a filter attached to its state or not.
TxArrive(r) ==
    /\ tx[r].pc = "idle"
    /\ \E method \in TxMethods, path \in TxPaths, body \in TxBodies,
          filter \in TxFilters :
          tx' = [tx EXCEPT ![r] = TxRequest("call", method, path, body, filter)]
    /\ UNCHANGED <<upstream, notTxVars>>

\* __call__: which handler the request goes to, if any.
tx_dispatch(method, path, filter) ==
    IF filter = None THEN "forward"
    ELSE IF method = "POST" /\ IsCreatePath(path) THEN "create"
    ELSE IF method \in {"PUT", "PATCH"} /\ IsModifyPath(path) THEN "update"
    ELSE IF method = "DELETE" /\ IsModifyPath(path) THEN "delete"
    ELSE "forward"

TxCall(r) ==
    /\ tx[r].pc = "call"
    /\ LET to == tx_dispatch(tx[r].method, tx[r].path, tx[r].cql2_filter)
       IN  tx' = [tx EXCEPT ![r].pc = to,
                            ![r].result = IF to = "forward" THEN TxNext(tx[r].body)
                                          ELSE TxNone]
    /\ UNCHANGED <<upstream, notTxVars>>

\* Where a handler leaves the request: with the next app, or done.
tx_after(result) == IF result.kind = "next" THEN "forward" ELSE "done"

\* _handle_create
TxHandleCreate(r) ==
    /\ tx[r].pc = "create"
    /\ LET result == handle_create(tx[r].cql2_filter.some, tx[r].body)
       IN  tx' = [tx EXCEPT ![r].pc = tx_after(result), ![r].result = result]
    /\ UNCHANGED <<upstream, notTxVars>>

\* The outcomes of the GET of _fetch_existing: a reply (200 or 404), or an
\* httpx.HTTPError.
FetchOutcomes == {"ok", "HTTPError"}

\* _handle_update
TxHandleUpdate(r) ==
    /\ tx[r].pc = "update"
    /\ IF tx[r].body = InvalidJsonBody
       THEN tx' = [tx EXCEPT ![r].pc = "done",
                             ![r].result =
                                 TxResponse(400, "ParseError",
                                            "Request body must be valid JSON.")]
       ELSE \E fetch \in FetchOutcomes :
               LET existing == IF fetch = "ok" THEN upstream[tx[r].path] ELSE None
                   result == handle_update(tx[r].cql2_filter.some, tx[r].method,
                                           tx[r].body, fetch, existing)
               IN  tx' = [tx EXCEPT ![r].pc = tx_after(result),
                                    ![r].result = result,
                                    ![r].fetched = TRUE,
                                    ![r].fetch = fetch,
                                    ![r].existing = existing]
    /\ UNCHANGED <<upstream, notTxVars>>

\* _handle_delete
TxHandleDelete(r) ==
    /\ tx[r].pc = "delete"
    /\ \E fetch \in FetchOutcomes :
          LET existing == IF fetch = "ok" THEN upstream[tx[r].path] ELSE None
              result == handle_delete(tx[r].cql2_filter.some, tx[r].body, fetch, existing)
          IN  tx' = [tx EXCEPT ![r].pc = tx_after(result),
                               ![r].result = result,
                               ![r].fetched = TRUE,
                               ![r].fetch = fetch,
                               ![r].existing = existing]
    /\ UNCHANGED <<upstream, notTxVars>>

\* What the upstream API makes of a write it is handed.
upstream_apply(store, method, path, body) ==
    IF path \notin TxRecordPaths \/ body = InvalidJsonBody THEN store
    ELSE CASE method = "PUT" /\ store[path] # None ->
                  [store EXCEPT ![path] = Some(body_json(body))]
           [] method = "PATCH" /\ store[path] # None ->
                  [store EXCEPT ![path] = Some(deep_merge(store[path].some, body_json(body)))]
           [] method = "DELETE" -> [store EXCEPT ![path] = None]
           [] OTHER -> store

\* `await self.app(scope, receive, send)`: the next stages run and the
\* upstream handles the request.
TxForward(r) ==
    /\ tx[r].pc = "forward"
    /\ upstream' = upstream_apply(upstream, tx[r].method, tx[r].path, tx[r].result.body)
    /\ tx' = [tx EXCEPT ![r].pc = "done"]
    /\ UNCHANGED notTxVars

\* The request is over.
TxDone(r) ==
    /\ tx[r].pc = "done"
    /\ tx' = [tx EXCEPT ![r] = TxIdle]
    /\ UNCHANGED <<upstream, notTxVars>>

NextTx ==
    \E r \in TxRequestIds :
        \/ TxArrive(r)
        \/ TxCall(r)
        \/ TxHandleCreate(r)
        \/ TxHandleUpdate(r)
        \/ TxHandleDelete(r)
        \/ TxForward(r)
        \/ TxDone(r)

\* The transaction validator handling requests.
SpecTx == InitTx /\ [][NextTx]_vars

-----------------------------------------------------------------------------
(* Properties of the transaction validator *)

\* The middleware has decided request r, which carries a filter.
TxDecided(r) == tx[r].result # TxNone /\ tx[r].cql2_filter # None

TxForwarded(r) == tx[r].result.kind = "next"
TxAnswered(r, status_code) ==
    tx[r].result.kind = "response" /\ tx[r].result.status_code = status_code

\* The body of r is JSON (or empty, which stands for {}) and the filter of r
\* evaluates to v on it.
TxBodyMatches(r, v) ==
    /\ tx[r].body # InvalidJsonBody
    /\ matches(tx[r].cql2_filter.some, body_json(tx[r].body)) = v

\* The current record of r was fetched, exists, and the filter of r evaluates
\* to v on it.
TxExistingMatches(r, v) ==
    /\ tx[r].fetched
    /\ tx[r].existing # None
    /\ matches(tx[r].cql2_filter.some, tx[r].existing.some) = v

\* C2: with a filter attached, a POST create is forwarded only if its body
\* matches the filter (403 if it does not); a PUT only if the fetched record
\* matches (404 if not) and the new body matches (403 if not); a DELETE only
\* if the fetched record matches (404 if not).  Only a request that passed
\* is handed to the next stage.
C2_WritesValidated ==
    \A r \in TxRequestIds :
        /\ tx[r].pc = "forward" => TxForwarded(r)
        /\ TxDecided(r) =>
            CASE tx[r].method = "POST" /\ IsCreatePath(tx[r].path) ->
                    /\ TxForwarded(r) => TxBodyMatches(r, "true")
                    /\ TxBodyMatches(r, "false") => TxAnswered(r, 403)
              [] tx[r].method = "PUT" /\ IsModifyPath(tx[r].path) ->
                    /\ TxForwarded(r) =>
                          TxExistingMatches(r, "true") /\ TxBodyMatches(r, "true")
                    /\ TxExistingMatches(r, "false") => TxAnswered(r, 404)
                    /\ (TxExistingMatches(r, "true") /\ TxBodyMatches(r, "false"))
                          => TxAnswered(r, 403)
              [] tx[r].method = "DELETE" /\ IsModifyPath(tx[r].path) ->
                    /\ TxForwarded(r) => TxExistingMatches(r, "true")
                    /\ TxExistingMatches(r, "false") => TxAnswered(r, 404)
              [] OTHER -> TRUE

\* A PUT that passed both checks is with the next stage.
C2_Witness ==
    \E r \in TxRequestIds :
        /\ tx[r].pc = "forward"
        /\ tx[r].cql2_filter # None
        /\ tx[r].method = "PUT"
        /\ TxExistingMatches(r, "true")
        /\ TxBodyMatches(r, "true")

\* A PUT to a record outside the filter is answered 404.
C2_WitnessRejected ==
    \E r \in TxRequestIds :
        /\ tx[r].pc = "done"
        /\ tx[r].method = "PUT"
        /\ TxDecided(r)
        /\ TxExistingMatches(r, "false")
        /\ TxAnswered(r, 404)

-----------------------------------------------------------------------------
(* CQL2 expressions in requests, and utils/filters.py *)

\* A JSON array, and a string made of the atoms of a request (a query
\* string value, a cql2-text filter, a filter-lang).
Arr(s) == [arr |-> s]
Text(s) == [text |-> s]

\* An exception, where a value was expected.
Error(exc) == [error |-> exc]
IsError(v) == "error" \in DOMAIN v

\* Python's truth value of an optional string or dict.
truthy(v) == v # None /\ v # Text(<<>>) /\ v # EmptyObj

\* filter + other: the conjunction of two expressions.
And(a, b) == [op |-> "and", args |-> <<a, b>>]

\* The comparisons an expression is the conjunction of, left to right.
RECURSIVE Conjuncts(_)
Conjuncts(e) ==
    IF e.op = "and" THEN Conjuncts(e.args[1]) \o Conjuncts(e.args[2]) ELSE <<e>>

\* Expr.to_text()
RECURSIVE to_text(_)
to_text(e) ==
    IF e.op = "and" THEN to_text(e.args[1]) \o <<"AND">> \o to_text(e.args[2])
    ELSE <<e.property, "=", e.value>>

\* Expr.to_json()
RECURSIVE to_json(_)
to_json(e) ==
    IF e.op = "and"
    THEN Obj([op |-> Str("and"), args |-> Arr(<<to_json(e.args[1]), to_json(e.args[2])>>)])
    ELSE Obj([op |-> Str("="),
              args |-> Arr(<<Obj([property |-> Str(e.property)]), Str(e.value)>>)])

\* The expression of a cql2-json object.
RECURSIVE from_json(_)
from_json(j) ==
    IF j.obj.op = Str("and")
    THEN And(from_json(j.obj.args.arr[1]), from_json(j.obj.args.arr[2]))
    ELSE Cql2Eq(j.obj.args.arr[1].obj.property.str, j.obj.args.arr[2].str)

\* json.dumps(val, separators=(",", ":")) of a cql2-json object, as atoms.
RECURSIVE json_dumps(_)
json_dumps(j) ==
    IF j.obj.op = Str("and")
    THEN <<"[">> \o json_dumps(j.obj.args.arr[1]) \o <<",">>
               \o json_dumps(j.obj.args.arr[2]) \o <<"]">>
    ELSE <<"{", j.obj.args.arr[1].obj.property.str, ":", j.obj.args.arr[2].str, "}">>

\* The conjunction, nested to the left, of a list of comparisons.
RECURSIVE conjoin(_)
conjoin(es) ==
    IF Len(es) = 1 THEN es[1]
    ELSE And(conjoin(SubSeq(es, 1, Len(es) - 1)), es[Len(es)])

\* cql2-text parsing: comparisons joined by AND.
parse_text(s) ==
    LET parts == Split(s, "AND")
    IN  IF \A i \in 1..Len(parts) : Len(parts[i]) = 3 /\ parts[i][2] = "="
        THEN Some(conjoin([i \in 1..Len(parts) |-> Cql2Eq(parts[i][1], parts[i][3])]))
        ELSE None

\* cql2-json parsing of a text: the expression whose JSON text it is.
parse_json_text(s) ==
    LET inner == SelectSeq(s, LAMBDA c : c \notin {"[", "]", ","})
        n == Len(inner) \div 5
        leaf(i) == SubSeq(inner, 5 * i - 4, 5 * i)
        ok == /\ n >= 1
              /\ Len(inner) = 5 * n
              /\ \A i \in 1..n : leaf(i)[1] = "{" /\ leaf(i)[3] = ":" /\ leaf(i)[5] = "}"
        e == conjoin([i \in 1..n |-> Cql2Eq(leaf(i)[2], leaf(i)[4])])
    IN  IF ok /\ json_dumps(to_json(e)) = s THEN Some(e) ELSE None

\* Expr(cur_filter): of a string in either language, or of a cql2-json
\* object; None where cql2 raises.
Expr(v) ==
    IF "text" \in DOMAIN v
    THEN IF v.text # <<>> /\ v.text[1] \in {"{", "["}
         THEN parse_json_text(v.text) ELSE parse_text(v.text)
    ELSE IF IsDict(v) /\ Keys(v) = {"op", "args"} THEN Some(from_json(v))
    ELSE None

\* A dict whose order matters: a sequence of items with distinct keys, the
\* keys being strings (sequences of atoms).
Item(k, v) == [k |-> k, v |-> v]
dict_has(d, k) == \E i \in 1..Len(d) : d[i].k = k
dict_get(d, k, default) ==
    IF dict_has(d, k) THEN d[CHOOSE i \in 1..Len(d) : d[i].k = k].v ELSE default
\* {**d, k: v}
dict_set(d, k, v) ==
    IF dict_has(d, k)
    THEN [i \in 1..Len(d) |-> IF d[i].k = k THEN Item(k, v) ELSE d[i]]
    ELSE Append(d, Item(k, v))

\* urllib.parse.unquote on the escapes in use.
unquote(s) ==
    [i \in 1..Len(s) |-> CASE s[i] = "%26" -> "&"
                           [] s[i] = "%3D" -> "="
                           [] OTHER -> s[i]]

\* The position of the first c in s, 0 if there is none.
IndexOf(s, c) ==
    IF InList(c, s)
    THEN CHOOSE i \in 1..Len(s) : s[i] = c /\ \A j \in 1..(i - 1) : s[j] # c
    ELSE 0

\* urllib.parse.parse_qsl: the name=value fields between "&", split at the
\* first "=", blank values and fields without "=" dropped, then unquoted.
RECURSIVE parse_fields(_)
parse_fields(fields) ==
    IF fields = <<>> THEN <<>>
    ELSE LET nv == Head(fields)
             i == IndexOf(nv, "=")
             rest == parse_fields(Tail(fields))
         IN  IF i = 0 \/ i = Len(nv) THEN rest
             ELSE <<Item(unquote(SubSeq(nv, 1, i - 1)),
                         Text(unquote(SubSeq(nv, i + 1, Len(nv)))))>> \o rest

parse_qsl(qs) == parse_fields(Split(qs, "&"))

\* {k: v[0] for k, v in parse_qs(qs).items()}: the first value of each name.
RECURSIVE first_values(_, _)
first_values(pairs, acc) ==
    IF pairs = <<>> THEN acc
    ELSE first_values(Tail(pairs),
                      IF dict_has(acc, Head(pairs).k) THEN acc
                      ELSE Append(acc, Head(pairs)))

\* append_body_filter(body, filter, filter_lang)
append_body_filter(body, filter, filter_lang) ==
    LET cur_filter == dict_get(body, <<"filter">>, None)
        lang == IF truthy(filter_lang) THEN filter_lang
                ELSE dict_get(body, <<"filter-lang">>, Text(<<"cql2-json">>))
        parsed == Expr(cur_filter)
        combined == IF truthy(cur_filter) THEN And(filter, parsed.some) ELSE filter
    IN  IF truthy(cur_filter) /\ parsed = None THEN Error("cql2 parse error")
        ELSE Some(dict_set(dict_set(body, <<"filter">>,
                                    IF lang = Text(<<"cql2-text">>)
                                    THEN Text(to_text(combined))
                                    ELSE to_json(combined)),
                           <<"filter-lang">>, lang))

\* dict_to_query_string(params): key=value joined by "&", nothing quoted.
RECURSIVE dict_to_query_string(_)
dict_to_query_string(params) ==
    IF params = <<>> THEN <<>>
    ELSE LET val == Head(params).v
             part == Head(params).k \o <<"=">> \o
                     (IF "text" \in DOMAIN val THEN val.text ELSE json_dumps(val))
         IN  IF Len(params) = 1 THEN part
             ELSE part \o <<"&">> \o dict_to_query_string(Tail(params))

\* append_qs_filter(qs, filter, filter_lang)
append_qs_filter(qs, filter, filter_lang) ==
    LET qs_dict == first_values(parse_qsl(qs), <<>>)
        new_qs_dict ==
            append_body_filter(qs_dict, filter,
                               IF truthy(filter_lang) THEN filter_lang
                               ELSE dict_get(qs_dict, <<"filter-lang">>,
                                             Text(<<"cql2-text">>)))
    IN  IF IsError(new_qs_dict) THEN new_qs_dict
        ELSE Some(dict_to_query_string(new_qs_dict.some))

-----------------------------------------------------------------------------
(* BuildCql2FilterMiddleware and ApplyCql2FilterMiddleware *)

\* The bytes of a response body: the JSON text of a document is its opening
\* and its closing half, with optional whitespace around them.
Byte(part, doc) == [part |-> part, doc |-> doc]
Whitespace == Byte("ws", EmptyObj)

\* json.dumps(doc).encode("utf-8")
dumps(doc) == <<Byte("open", doc), Byte("close", doc)>>

\* json.loads(body): None stands for json.JSONDecodeError.
loads(body) ==
    LET text == SelectSeq(body, LAMBDA b : b.part # "ws")
    IN  IF /\ Len(text) = 2
           /\ text[1].part = "open"
           /\ text[2] = Byte("close", text[1].doc)
        THEN Some(text[1].doc)
        ELSE None

\* ASGI response messages.
ResponseStart(status, content_length) ==
    [type |-> "http.response.start", status |-> status,
     content_length |-> content_length]
ResponseBody(body, more_body) ==
    [type |-> "http.response.body", body |-> body, more_body |-> more_body]

\* A JSON object whose keys keep their order.
Dict(items) == [dict |-> items]

\* A request in the filter stages.
\*   state            request.state.cql2_filter, None while not set
\*   receive          the receive callable in use: the server's ("raw"),
\*                    receive_build_filter ("build") or new_receive ("new")
\*   send             the send callable in use: the server's ("raw") or
\*                    buffered_send ("buffered")
\*   called, built    whether the filter callable ran, and the filter it made
\*   returned         what the filter callable returned (see BuilderOutcomes)
\*   applied, seen    whether ApplyCql2FilterMiddleware ran, and the filter it
\*                    read from the state
\*   new_body         the body new_receive delivers
\*   next_*           what the stage after ApplyCql2FilterMiddleware is given
\*   upstream_body    the body of the reply of the upstream API
\*   pending          the response messages the next stage has yet to send
\*   initial_message, buffer   the variables of Cql2ResponseBodyValidator
\*   sent             the response messages sent to the client
\*   raised           the exception that ended the request, if any
PipeRequest(pc, method, path, query_string, body, state) ==
    [pc |-> pc, method |-> method, path |-> path,
     query_string |-> query_string, body |-> body, state |-> state,
     receive |-> "raw", send |-> "raw",
     called |-> FALSE, built |-> None, returned |-> "", applied |-> FALSE,
     seen |-> None,
     new_body |-> EmptyBody,
     next_query_string |-> query_string, next_body |-> None,
     upstream_body |-> <<>>, pending |-> <<>>,
     initial_message |-> None, buffer |-> <<>>, sent |-> <<>>,
     raised |-> None]

PipeIdle == PipeRequest("idle", "GET", <<>>, <<>>, EmptyBody, None)

\* The request ends with an exception.
raise(p, exc) == [p EXCEPT !.pc = "done", !.raised = Some(exc)]

\* The filter the configured callables generate, and one a caller may send.
GeneratedFilter == Cql2Eq("collection", "allowed")
CallerFilter == Cql2Eq("collection", "denied")

\* What a filter callable may do with a request: return a valid expression,
\* return one that validate() rejects, return None or return the empty
\* string.
BuilderOutcomes == {"expr", "invalid", "None", "''"}

\* BuildCql2FilterMiddleware._get_filter
get_filter(path, collections, items) ==
    IF \/ re_match(Pattern(<<"collections">>, TRUE), path)
       \/ re_match(Pattern(<<"collections", AnySeg>>, TRUE), path)
    THEN collections
    ELSE IF \/ re_match(Pattern(<<"collections", AnySeg, "items">>, TRUE), path)
            \/ re_match(Pattern(<<"collections", AnySeg, "items", AnySeg>>, TRUE), path)
            \/ re_match(Pattern(<<"search">>, TRUE), path)
    THEN items
    ELSE None

\* set_filter: the callable is awaited, its result validated and put on the
\* request state.
set_filter(p, outcome) ==
    CASE outcome = "expr" ->
            [p EXCEPT !.called = TRUE,
                      !.returned = outcome,
                      !.built = Some(GeneratedFilter),
                      !.state = Some(GeneratedFilter)]
      [] outcome = "invalid" ->
            raise([p EXCEPT !.called = TRUE, !.returned = outcome], "ValidationError")
      [] OTHER ->
            raise([p EXCEPT !.called = TRUE, !.returned = outcome], "AttributeError")

\* Reading the request body to its end through the receive callable in use;
\* receive_build_filter sets the filter once the last chunk is in.
receive_body(p, outcome) ==
    IF p.receive # "build" THEN p
    ELSE IF p.body = InvalidJsonBody THEN raise(p, "JSONDecodeError")
    ELSE set_filter(p, outcome)

\* The body the receive callable in use delivers.
received_body(p) == IF p.receive = "new" THEN p.new_body ELSE p.body

\* BuildCql2FilterMiddleware.__call__
BuildCql2FilterMiddleware_call(r) ==
    /\ pipe[r].pc = "build"
    /\ LET p == pipe[r]
           filter_builder == get_filter(p.path, collections_filter, items_filter)
       IN  IF filter_builder = None
           THEN pipe' = [pipe EXCEPT ![r].pc = "apply"]
           ELSE IF p.method = "GET"
           THEN \E outcome \in BuilderOutcomes :
                   LET q == set_filter(p, outcome)
                   IN  pipe' = [pipe EXCEPT ![r] = IF q.raised # None THEN q
                                                   ELSE [q EXCEPT !.pc = "apply"]]
           ELSE pipe' = [pipe EXCEPT ![r].pc = "apply", ![r].receive = "build"]
    /\ UNCHANGED <<collections_filter, items_filter, notPipeVars>>

\* Cql2RequestBodyAugmentor.__call__, up to the call of the next app.
Cql2RequestBodyAugmentor(p, cql2_filter, outcome) ==
    LET q == receive_body(p, outcome)
        body == received_body(q)
    IN  IF q.raised # None THEN q
        ELSE IF body \in {EmptyBody, InvalidJsonBody} THEN raise(q, "JSONDecodeError")
        ELSE IF "dict" \notin DOMAIN body.doc THEN raise(q, "AssertionError")
        ELSE LET new == append_body_filter(body.doc.dict, cql2_filter, None)
             IN  IF IsError(new) THEN raise(q, new.error)
                 ELSE [q EXCEPT !.pc = "app", !.receive = "new",
                                !.new_body = JsonBody(Dict(new.some))]

\* ApplyCql2FilterMiddleware.__call__, up to the call of the next app.
ApplyCql2FilterMiddleware_call(r) ==
    /\ pipe[r].pc = "apply"
    /\ \E outcome \in BuilderOutcomes :
          LET p == [pipe[r] EXCEPT !.applied = TRUE, !.seen = pipe[r].state]
              qs == append_qs_filter(p.query_string, p.state.some, None)
          IN  pipe' = [pipe EXCEPT ![r] =
                  IF p.state = None THEN [p EXCEPT !.pc = "app"]
                  ELSE IF p.method \in {"POST", "PUT", "PATCH"}
                  THEN Cql2RequestBodyAugmentor(p, p.state.some, outcome)
                  ELSE IF re_match(Pattern(<<"collections", AnySeg, "items", AnySeg>>, TRUE),
                                   p.path)
                  THEN [p EXCEPT !.pc = "app", !.send = "buffered"]
                  ELSE IF IsError(qs) THEN raise(p, qs.error)
                  ELSE [p EXCEPT !.pc = "app", !.next_query_string = qs.some]]
    /\ UNCHANGED <<collections_filter, items_filter, notPipeVars>>

\* _send_error_response(status, message)
send_error_response(p, status, message) ==
    LET error_body == dumps(Single("message", Str(message)))
        start == [p.initial_message.some EXCEPT !.content_length = Len(error_body),
                                                !.status = status]
    IN  [p EXCEPT !.initial_message = Some(start),
                  !.sent = p.sent \o <<start, ResponseBody(error_body, FALSE)>>]

\* Cql2ResponseBodyValidator.buffered_send(message)
buffered_send(p, message) ==
    IF message.type = "http.response.start"
    THEN [p EXCEPT !.initial_message = Some(message)]
    ELSE IF p.initial_message = None THEN raise(p, "AssertionError")
    ELSE LET body == p.buffer \o message.body
             q == [p EXCEPT !.buffer = body]
             parsed == loads(body)
         IN  IF message.more_body THEN q
             ELSE IF parsed = None THEN send_error_response(q, 502, "Not found")
             ELSE CASE matches(p.seen.some, parsed.some) = "error" ->
                          raise(q, "cql2 error")
                    [] matches(p.seen.some, parsed.some) = "true" ->
                          [q EXCEPT !.sent = q.sent \o
                                <<q.initial_message.some,
                                  ResponseBody(dumps(parsed.some), FALSE)>>]
                    [] OTHER -> send_error_response(q, 404, "Not found")

\* The reply of the upstream API, as the response messages of the next app:
\* the body in one message, or split in two after `split` bytes.
UpstreamReply(status, body, split) == [status |-> status, body |-> body, split |-> split]

messages(reply) ==
    <<ResponseStart(reply.status, Len(reply.body))>> \o
    (IF reply.split >= Len(reply.body)
     THEN <<ResponseBody(reply.body, FALSE)>>
     ELSE <<ResponseBody(SubSeq(reply.body, 1, reply.split), TRUE),
            ResponseBody(SubSeq(reply.body, reply.split + 1, Len(reply.body)), FALSE)>>)

\* The requests the filter stages can hold at a time.
PipeRequestIds == {"p1"}

\* Most fields in a query string.
MaxQueryFields == 2

PipeSearchPath == <<"search">>
PipeCollectionsPath == <<"collections">>
PipeCollectionPath == <<"collections", "c1">>
PipeItemsPath == <<"collections", "c1", "items">>
PipeItemPath == <<"collections", "c1", "items", "i1">>
PipePaths == {PipeSearchPath, PipeCollectionsPath, PipeCollectionPath,
              PipeItemsPath, PipeItemPath, <<"other">>}
PipeMethods == {"GET", "POST", "PUT", "DELETE"}

\* The name=value fields of the query strings: a limit, the caller's filter
\* in either language, no filter value, a filter that is no CQL2, a
\* filter-lang, and a limit whose value holds a quoted "&filter=...".
QueryFields ==
    {<<"limit", "=", "5">>,
     <<"filter", "=">> \o to_text(CallerFilter),
     <<"filter", "=">> \o json_dumps(to_json(CallerFilter)),
     <<"filter", "=">>,
     <<"filter", "=", "junk">>,
     <<"filter-lang", "=", "cql2-json">>,
     <<"filter-lang", "=", "cql2-text">>,
     <<"limit", "=", "5", "%26", "filter", "%3D">> \o to_text(CallerFilter)}

\* "&".join(fields)
RECURSIVE join_fields(_)
join_fields(fields) ==
    IF fields = <<>> THEN <<>>
    ELSE IF Len(fields) = 1 THEN fields[1]
    ELSE fields[1] \o <<"&">> \o join_fields(Tail(fields))

QueryStrings == {join_fields(fields) : fields \in SeqsUpTo(QueryFields, MaxQueryFields)}

\* The JSON bodies of searches.
Limit == Item(<<"limit">>, Str("5"))
SearchBodies ==
    {JsonBody(Dict(d)) : d \in
        {<<>>,
         <<Limit>>,
         <<Item(<<"filter">>, to_json(CallerFilter)), Limit>>,
         <<Item(<<"filter">>, to_json(CallerFilter)),
           Item(<<"filter-lang">>, Text(<<"cql2-json">>))>>,
         <<Limit, Item(<<"filter-lang">>, Text(<<"cql2-text">>)),
           Item(<<"filter">>, Text(to_text(CallerFilter)))>>,
         <<Item(<<"filter">>, Text(<<"junk">>))>>}}

PipeBodies == {EmptyBody, InvalidJsonBody, JsonBody(Arr(<<>>))} \cup SearchBodies

\* The request lines and bodies: GET requests vary in their query string,
\* the others in their body.
PipeInputs ==
    {[method |-> "GET", path |-> path, query_string |-> qs, body |-> EmptyBody] :
        path \in PipePaths, qs \in QueryStrings}
    \cup
    {[method |-> method, path |-> path, query_string |-> <<>>, body |-> body] :
        method \in PipeMethods \ {"GET"}, path \in PipePaths, body \in PipeBodies}

\* The replies of the upstream API.
NotFoundDoc == Single("code", Str("NotFoundError"))
UpstreamBodies ==
    {dumps(DocAllowed), dumps(DocDenied),
     <<Byte("open", DocAllowed), Whitespace, Byte("close", DocAllowed)>>,
     <<Byte("open", DocAllowed)>>}
UpstreamReplies ==
    {UpstreamReply(200, body, split) : body \in UpstreamBodies, split \in {1, 3}}
    \cup {UpstreamReply(404, dumps(NotFoundDoc), 3)}

\* The replies to a request: only those to the GET of one record vary.
IsSingleResource(path) ==
    \/ re_match(Pattern(<<"collections", AnySeg>>, TRUE), path)
    \/ re_match(Pattern(<<"collections", AnySeg, "items", AnySeg>>, TRUE), path)

RepliesTo(p) ==
    IF p.method = "GET" /\ IsSingleResource(p.path) THEN UpstreamReplies
    ELSE {UpstreamReply(200, dumps(DocAllowed), 3)}

\* The callables BuildCql2FilterMiddleware may be configured with.
FilterCallables == {None, Some("callable")}

InitPipe ==
    /\ collections_filter \in FilterCallables
    /\ items_filter \in FilterCallables
    /\ pipe = [r \in PipeRequestIds |-> PipeIdle]
    /\ InitAuthIdle
    /\ InitTxIdle
    /\ InitMatchIdle
    /\ InitMutatorIdle
    /\ InitOpenApiIdle
    /\ InitLinksIdle
    /\ InitProxyIdle
    /\ InitDiscoveryIdle
    /\ InitKeySetIdle
    /\ InitHealthIdle
    /\ InitBasePathIdle
    /\ InitMemoryCacheIdle

\* ApplyCql2FilterMiddleware behind a stage that has set the request state.
InitApply ==
    /\ collections_filter = None
    /\ items_filter = None
    /\ pipe = [r \in PipeRequestIds |-> PipeIdle]
    /\ InitAuthIdle
    /\ InitTxIdle
    /\ InitMatchIdle
    /\ InitMutatorIdle
    /\ InitOpenApiIdle
    /\ InitLinksIdle
    /\ InitProxyIdle
    /\ InitDiscoveryIdle
    /\ InitKeySetIdle
    /\ InitHealthIdle
    /\ InitBasePathIdle
    /\ InitMemoryCacheIdle

\* A request reaches BuildCql2FilterMiddleware.
PipeArrive(r) ==
    /\ pipe[r].pc = "idle"
    /\ \E i \in PipeInputs :
          pipe' = [pipe EXCEPT ![r] =
                      PipeRequest("build", i.method, i.path, i.query_string, i.body, None)]
    /\ UNCHANGED <<collections_filter, items_filter, notPipeVars>>

\* A request reaches ApplyCql2FilterMiddleware, a filter on its state or not.
ApplyArrive(r) ==
    /\ pipe[r].pc = "idle"
    /\ \E i \in PipeInputs, state \in {None, Some(GeneratedFilter)} :
          pipe' = [pipe EXCEPT ![r] =
                      PipeRequest("apply", i.method, i.path, i.query_string, i.body, state)]
    /\ UNCHANGED <<collections_filter, items_filter, notPipeVars>>

\* The next app: it reads the request body to its end, sends the request
\* to the upstream API and gets its reply.
AppCall(r) ==
    /\ pipe[r].pc = "app"
    /\ \E outcome \in BuilderOutcomes, reply \in RepliesTo(pipe[r]) :
          LET q == receive_body(pipe[r], outcome)
          IN  pipe' = [pipe EXCEPT ![r] =
                  IF q.raised # None THEN q
                  ELSE [q EXCEPT !.pc = "respond",
                                 !.next_body = Some(received_body(q)),
                                 !.upstream_body = reply.body,
                                 !.pending = messages(reply)]]
    /\ UNCHANGED <<collections_filter, items_filter, notPipeVars>>

\* The next app sends one response message through the send callable in use.
AppSend(r) ==
    /\ pipe[r].pc = "respond"
    /\ LET p == pipe[r]
           message == Head(p.pending)
           q == [p EXCEPT !.pending = Tail(p.pending)]
           after == IF p.send = "buffered" THEN buffered_send(q, message)
                    ELSE [q EXCEPT !.sent = Append(q.sent, message)]
       IN  pipe' = [pipe EXCEPT ![r] =
               IF after.raised = None /\ after.pending = <<>>
               THEN [after EXCEPT !.pc = "done"] ELSE after]
    /\ UNCHANGED <<collections_filter, items_filter, notPipeVars>>

\* The request is over.
PipeDone(r) ==
    /\ pipe[r].pc = "done"
    /\ pipe' = [pipe EXCEPT ![r] = PipeIdle]
    /\ UNCHANGED <<collections_filter, items_filter, notPipeVars>>

NextPipe ==
    \E r \in PipeRequestIds :
        \/ PipeArrive(r)
        \/ BuildCql2FilterMiddleware_call(r)
        \/ ApplyCql2FilterMiddleware_call(r)
        \/ AppCall(r)
        \/ AppSend(r)
        \/ PipeDone(r)

\* The filter stages as create_app chains them.
SpecPipe == InitPipe /\ [][NextPipe]_vars

NextApply ==
    \E r \in PipeRequestIds :
        \/ ApplyArrive(r)
        \/ ApplyCql2FilterMiddleware_call(r)
        \/ AppCall(r)
        \/ AppSend(r)
        \/ PipeDone(r)

\* ApplyCql2FilterMiddleware and the stages after it.
SpecApply == InitApply /\ [][NextApply]_vars

-----------------------------------------------------------------------------
(* Properties of the filter stages *)

\* The elements of a sequence.
Range(s) == {s[i] : i \in 1..Len(s)}

\* The request is on a route BuildCql2FilterMiddleware has a callable for.
OnFilterRoute(p) == get_filter(p.path, collections_filter, items_filter) # None

\* ApplyCql2FilterMiddleware has handed the request to the next app.
PipeForwarded(p) == p.applied /\ p.raised = None /\ p.pc \in {"app", "respond", "done"}

\* The next app has read the request body.
PipeBodyHanded(p) == PipeForwarded(p) /\ p.next_body # None

\* C3: on a filter route, whatever the method, the filter-build stage has
\* run the filter callable and attached its filter to the request state
\* before the next stage reads that state: once the next stage has run, the
\* callable has been called, and the filter it produced is the one the next
\* stage read.
C3_FilterAttachedBeforeNextStage ==
    \A r \in PipeRequestIds :
        LET p == pipe[r] IN
        /\ (p.applied /\ OnFilterRoute(p)) => p.called
        /\ (p.applied /\ p.built # None) => p.seen = p.built

\* For GET requests the filter is attached before the next stage runs.
FilterAttachedBeforeNextStageOfGet ==
    \A r \in PipeRequestIds :
        LET p == pipe[r] IN
        p.method = "GET" =>
            /\ (p.applied /\ OnFilterRoute(p)) => p.called
            /\ (p.applied /\ p.built # None) => p.seen = p.built

\* A POST whose filter is built only after the next stage has read the
\* state.
FilterAttachedTooLate ==
    \E r \in PipeRequestIds :
        /\ pipe[r].method = "POST"
        /\ pipe[r].built # None
        /\ pipe[r].seen = None
        /\ pipe[r].applied

\* The body `next` is the object `received` with the generated filter
\* AND-combined into its filter, filter-lang the caller's (cql2-json when
\* there is none) and the other keys as they were.
BodyAugmented(received, next, generated) ==
    LET cur == dict_get(received, <<"filter">>, None)
        new == Expr(dict_get(next, <<"filter">>, None))
        kept(d) == {i \in Range(d) : i.k \notin {<<"filter">>, <<"filter-lang">>}}
    IN  /\ new # None
        /\ Range(Conjuncts(new.some)) =
              {generated} \cup
              (IF truthy(cur) THEN Range(Conjuncts(Expr(cur).some)) ELSE {})
        /\ dict_get(next, <<"filter-lang">>, None) =
              dict_get(received, <<"filter-lang">>, Text(<<"cql2-json">>))
        /\ kept(next) = kept(received)

\* The request carries a JSON object whose filter, if any, is CQL2.
HasSearchBody(p) ==
    /\ p.body \notin {EmptyBody, InvalidJsonBody}
    /\ "dict" \in DOMAIN p.body.doc
    /\ LET cur == dict_get(p.body.doc.dict, <<"filter">>, None)
       IN  truthy(cur) => Expr(cur) # None

\* C4: for a POST to a filter route whose filter callable produces a
\* predicate, the JSON body handed to the next stage is the received object
\* with filter set to the generated predicate AND-combined with the caller's
\* filter, filter-lang the caller's value (cql2-json when there is none) and
\* every other key unchanged.
C4_PostBodyCarriesFilter ==
    \A r \in PipeRequestIds :
        LET p == pipe[r] IN
        (/\ p.method = "POST"
         /\ OnFilterRoute(p)
         /\ p.built # None
         /\ PipeBodyHanded(p)
         /\ HasSearchBody(p))
        => /\ p.next_body.some \notin {EmptyBody, InvalidJsonBody}
           /\ "dict" \in DOMAIN p.next_body.some.doc
           /\ BodyAugmented(p.body.doc.dict, p.next_body.some.doc.dict, p.built.some)

\* Cql2RequestBodyAugmentor, given a filter, augments the body as C4 says.
AugmentorCombinesFilters ==
    \A r \in PipeRequestIds :
        LET p == pipe[r] IN
        (/\ p.method \in {"POST", "PUT", "PATCH"}
         /\ p.seen # None
         /\ PipeBodyHanded(p))
        => /\ HasSearchBody(p)
           /\ BodyAugmented(p.body.doc.dict, p.next_body.some.doc.dict, p.seen.some)

AugmentorCombinesFilters_Witness ==
    \E r \in PipeRequestIds :
        /\ pipe[r].method = "POST"
        /\ pipe[r].seen # None
        /\ PipeBodyHanded(pipe[r])
        /\ dict_has(pipe[r].body.doc.dict, <<"filter">>)

\* The GET list endpoints.
IsListEndpoint(path) == path \in {PipeCollectionsPath, PipeItemsPath, PipeSearchPath}

\* The fields named k of a query string, as the receiver parses them.
FieldsNamed(qs, k) == SelectSeq(parse_qsl(qs), LAMBDA i : i.k = k)

\* Every filter field of `next` is the generated filter AND-combined with
\* the caller's, and every filter-lang field the caller's (cql2-text when
\* there is none).
QueryAugmented(received, next, generated) ==
    LET caller == first_values(parse_qsl(received), <<>>)
        cur == dict_get(caller, <<"filter">>, None)
        expected == {generated} \cup
                    (IF truthy(cur) THEN Range(Conjuncts(Expr(cur).some)) ELSE {})
        filters == FieldsNamed(next, <<"filter">>)
        langs == FieldsNamed(next, <<"filter-lang">>)
    IN  /\ filters # <<>>
        /\ \A i \in 1..Len(filters) :
              /\ Expr(filters[i].v) # None
              /\ Range(Conjuncts(Expr(filters[i].v).some)) = expected
        /\ langs # <<>>
        /\ \A i \in 1..Len(langs) :
              langs[i].v = dict_get(caller, <<"filter-lang">>, Text(<<"cql2-text">>))

\* C5: for a GET to a list endpoint with a filter attached, the query string
\* handed to the next stage carries filter equal to the generated predicate
\* AND-combined with the caller's filter (alone when there is none) and
\* filter-lang equal to the caller's value, cql2-text by default; no filter
\* of the forwarded query string is without the generated predicate.
C5_QueryCarriesFilter ==
    \A r \in PipeRequestIds :
        LET p == pipe[r] IN
        (/\ p.method = "GET"
         /\ IsListEndpoint(p.path)
         /\ p.seen # None
         /\ PipeForwarded(p))
        => QueryAugmented(p.query_string, p.next_query_string, p.seen.some)

\* The same for the query strings in which no value holds a quoted "&".
C5_QueryCarriesFilterUnlessQuoted ==
    \A r \in PipeRequestIds :
        LET p == pipe[r] IN
        (/\ p.method = "GET"
         /\ IsListEndpoint(p.path)
         /\ p.seen # None
         /\ PipeForwarded(p)
         /\ ~InList("%26", p.query_string))
        => QueryAugmented(p.query_string, p.next_query_string, p.seen.some)

QueryCarriesFilter_Witness ==
    \E r \in PipeRequestIds :
        /\ pipe[r].method = "GET"
        /\ pipe[r].path = PipeSearchPath
        /\ pipe[r].seen # None
        /\ PipeForwarded(pipe[r])
        /\ FieldsNamed(pipe[r].query_string, <<"filter">>) # <<>>

\* What the client has been sent: the status, and the bytes of the body.
ClientStatus(p) == p.sent[1].status
RECURSIVE concat_bodies(_)
concat_bodies(ms) ==
    IF ms = <<>> THEN <<>>
    ELSE (IF Head(ms).type = "http.response.body" THEN Head(ms).body ELSE <<>>)
         \o concat_bodies(Tail(ms))
ClientBody(p) == concat_bodies(p.sent)

\* The GET of one record, a filter attached, has been answered, and the
\* record the upstream API replied with does not match the filter.
NonMatchingReply(p, path_ok) ==
    /\ p.method = "GET"
    /\ path_ok
    /\ p.seen # None
    /\ p.pc = "done"
    /\ p.raised = None
    /\ loads(p.upstream_body) # None
    /\ matches(p.seen.some, loads(p.upstream_body).some) = "false"

\* C6: for a GET of a single item or of a single collection with a filter
\* attached, an upstream body that does not match the filter is not what
\* the client receives: the client is answered 404.
C6_SingleResourceValidated ==
    \A r \in PipeRequestIds :
        LET p == pipe[r] IN
        NonMatchingReply(p, IsSingleResource(p.path))
        => /\ ClientStatus(p) = 404
           /\ loads(ClientBody(p)) # loads(p.upstream_body)

\* The same for single items alone.
SingleItemValidated ==
    \A r \in PipeRequestIds :
        LET p == pipe[r] IN
        NonMatchingReply(p, p.path = PipeItemPath)
        => /\ ClientStatus(p) = 404
           /\ loads(ClientBody(p)) # loads(p.upstream_body)

SingleItemValidated_Witness ==
    \E r \in PipeRequestIds : NonMatchingReply(pipe[r], pipe[r].path = PipeItemPath)
-----------------------------------------------------------------------------
(* find_match on its own: rule maps, paths and methods drawn from small sets *)

\* The longest rule map given to find_match.
MaxRules == 2

\* Rules whose patterns overlap: `^/collections$` and `^/[^/]+$`, which both
\* match /collections whole, `^/collections` (no `$`), and `^/`, which matches
\* at the start of every path.
MatchRules ==
    { Endpoint(Pattern(<<"collections">>, TRUE),
               <<MethodScopes("POST", <<ScopeCreate>>)>>),
      Endpoint(Pattern(<<"collections">>, FALSE),
               <<Method("post"), Method("GET")>>),
      Endpoint(Pattern(<<AnySeg>>, TRUE),
               <<MethodScopes("GET", <<ScopeOther>>), Method("get"), Method("POST")>>),
      Endpoint(Pattern(<<>>, FALSE),
               <<MethodScopes("GET", <<ScopeCreate, ScopeOther>>)>>) }

\* An EndpointMethods dict: its keys (the patterns) are distinct.
RuleMaps ==
    {m \in SeqsUpTo(MatchRules, MaxRules) :
        \A i, j \in 1..Len(m) : m[i].pattern = m[j].pattern => i = j}

MatchPaths ==
    {<<>>, <<"collections">>, <<"collections", "c1">>,
     <<"collections", "c1", "items">>}

MatchMethods == {"GET", "get", "POST", "PUT"}

\* One call of find_match and what it returned.
FindMatchCall(path, method, private, public, default_pub) ==
    [path |-> path, method |-> method, private_endpoints |-> private,
     public_endpoints |-> public, default_public |-> default_pub,
     result |-> find_match(path, method, private, public, default_pub)]

InitMatch ==
    /\ classified = None
    /\ InitAuthIdle
    /\ InitTxIdle
    /\ InitPipeIdle
    /\ InitMutatorIdle
    /\ InitOpenApiIdle
    /\ InitLinksIdle
    /\ InitProxyIdle
    /\ InitDiscoveryIdle
    /\ InitKeySetIdle
    /\ InitHealthIdle
    /\ InitBasePathIdle
    /\ InitMemoryCacheIdle

FindMatch ==
    /\ classified = None
    /\ \E path \in MatchPaths, method \in MatchMethods,
          private \in RuleMaps, public \in RuleMaps, default_pub \in BOOLEAN :
          classified' = Some(FindMatchCall(path, method, private, public, default_pub))
    /\ UNCHANGED notMatchVars

FindMatchReturn ==
    /\ classified # None
    /\ classified' = None
    /\ UNCHANGED notMatchVars

NextMatch == FindMatch \/ FindMatchReturn

SpecMatch == InitMatch /\ [][NextMatch]_vars

\* The call observed, and the map it had to consult.
Classified == classified.some
ConsultedMap ==
    IF Classified.default_public THEN Classified.private_endpoints
    ELSE Classified.public_endpoints

\* The rules of a map that apply to the call: pattern matched by re.match,
\* method named in the method list whatever its case.
RuleApplies(rule, path, method) ==
    /\ re_match(rule.pattern, path)
    /\ \E j \in 1..Len(rule.methods) :
          casefold(rule.methods[j].method) = casefold(method)
ApplicableRules(map) ==
    {i \in 1..Len(map) : RuleApplies(map[i], Classified.path, Classified.method)}

\* C11: find_match consults only the private map when default_public is true
\* and only the public map when it is false: the other map never changes the
\* result. When a rule of the consulted map applies (pattern matches, method
\* listed case-insensitively) the result has is_private = default_public; when
\* none applies it has is_private = not default_public and no required scopes.
C11_FindMatchConsultsOneMap ==
    classified # None =>
        LET c == Classified
        IN  /\ \A other \in RuleMaps :
                  find_match(c.path, c.method,
                             IF c.default_public THEN c.private_endpoints ELSE other,
                             IF c.default_public THEN other ELSE c.public_endpoints,
                             c.default_public) = c.result
            /\ ApplicableRules(ConsultedMap) # {}
                  => c.result.is_private = c.default_public
            /\ ApplicableRules(ConsultedMap) = {}
                  => c.result = MatchResult(~c.default_public, <<>>)

\* A call decided by a rule of the consulted map whose method is written in
\* another case, while the other map holds a rule that applies as well.
C11_Witness ==
    /\ classified # None
    /\ ApplicableRules(ConsultedMap) # {}
    /\ \A i \in ApplicableRules(ConsultedMap) :
          \A j \in 1..Len(ConsultedMap[i].methods) :
              ConsultedMap[i].methods[j].method # Classified.method
    /\ ApplicableRules(IF Classified.default_public THEN Classified.public_endpoints
                       ELSE Classified.private_endpoints) # {}
    /\ Classified.result.is_private = Classified.default_public

\* What a match of the whole path would be (re.fullmatch): every segment of the
\* path is consumed by the pattern.
re_fullmatch(pattern, path) ==
    /\ Len(pattern.segs) = Len(path)
    /\ \A i \in 1..Len(pattern.segs) :
          pattern.segs[i] = AnySeg \/ pattern.segs[i] = path[i]

\* The rules of a map that would apply if patterns had to match the whole path.
WholePathRules(map) ==
    {i \in 1..Len(map) :
        /\ re_fullmatch(map[i].pattern, Classified.path)
        /\ \E j \in 1..Len(map[i].methods) :
              casefold(map[i].methods[j].method) = casefold(Classified.method)}

\* C12: a rule applies to a request only when its regular expression matches
\* the whole request path: when no rule of the consulted map matches the whole
\* path (a pattern matching only a proper prefix does not count), the request
\* gets the default classification.
C12_RuleAppliesOnlyOnWholePath ==
    (classified # None /\ WholePathRules(ConsultedMap) = {}) =>
        Classified.result = MatchResult(~Classified.default_public, <<>>)

\* The part of C12 that the code keeps: a pattern ending in `$` classifies only
\* the paths it matches whole.
AnchoredRuleAppliesOnlyOnWholePath ==
    (classified # None
        /\ \A i \in 1..Len(ConsultedMap) : ConsultedMap[i].pattern.anchored
        /\ WholePathRules(ConsultedMap) = {}) =>
        Classified.result = MatchResult(~Classified.default_public, <<>>)

\* C13: required-scope lists take effect only for matches in the private rule
\* set: when the public map is consulted (default_public false) the
\* classification carries no required scopes, and a token presented on a
\* public endpoint is not answered "Not enough permissions".
C13_PublicMatchCarriesNoScopes ==
    (AuthHandled /\ ~default_public) =>
        /\ AuthMatch.required_scopes = <<>>
        /\ ~(/\ auth_result.kind = "response"
             /\ auth_result.status_code = 401
             /\ auth_result.body = Detail("Not enough permissions"))

\* The same for find_match alone.
FindMatchPublicCarriesNoScopes ==
    (classified # None /\ ~Classified.default_public) =>
        Classified.result.required_scopes = <<>>

\* The orders in which the entries of a rule map can be declared.
DeclarationOrders(map) ==
    {q \in RuleMaps :
        /\ Len(q) = Len(map)
        /\ {q[i] : i \in 1..Len(q)} = {map[i] : i \in 1..Len(map)}}

\* find_match for the call observed, with the consulted map declared as q.
ClassifiedWith(q) ==
    find_match(Classified.path, Classified.method,
               IF Classified.default_public THEN q ELSE Classified.private_endpoints,
               IF Classified.default_public THEN Classified.public_endpoints ELSE q,
               Classified.default_public)

\* C14: the classification of a (path, method) pair, is_private and
\* required_scopes both, does not depend on the order in which the patterns of
\* the consulted map are declared.
C14_OrderIrrelevant ==
    classified # None =>
        \A q \in DeclarationOrders(ConsultedMap) : ClassifiedWith(q) = Classified.result

\* C14 as the code has it: is_private does not depend on the declaration
\* order; required_scopes does not either when at most one rule of the
\* consulted map applies to the (path, method) pair.
C14_OrderDecidesScopesOnly ==
    classified # None =>
        \A q \in DeclarationOrders(ConsultedMap) :
            /\ ClassifiedWith(q).is_private = Classified.result.is_private
            /\ Cardinality(ApplicableRules(ConsultedMap)) <= 1
                  => ClassifiedWith(q) = Classified.result

\* A map of two rules whose patterns both match the path, the second one alone
\* listing the method, with required scopes.
C14_Witness ==
    /\ classified # None
    /\ Len(ConsultedMap) = 2
    /\ \A i \in 1..2 : re_match(ConsultedMap[i].pattern, Classified.path)
    /\ ApplicableRules(ConsultedMap) = {2}
    /\ Classified.result.required_scopes # <<>>

\* C14 for maps whose patterns all end in `$`: the declaration order decides
\* between two patterns that match the same path whole.
OrderIrrelevantWhenAnchored ==
    (classified # None
        /\ \A i \in 1..Len(ConsultedMap) : ConsultedMap[i].pattern.anchored) =>
        \A q \in DeclarationOrders(ConsultedMap) : ClassifiedWith(q) = Classified.result
-----------------------------------------------------------------------------
(* Properties of the transaction validator: PATCH, and records not found *)

\* Request r is one the middleware hands to _handle_update or _handle_delete.
TxIsModify(r, methods) ==
    /\ tx[r].cql2_filter # None
    /\ tx[r].method \in methods
    /\ IsModifyPath(tx[r].path)

\* merged is base with override merged into it: a key the override lacks
\* keeps the base value, a non-mapping override value replaces the base
\* value, and where both values are mappings they are merged the same way, one
\* level down.
IsDeepMerge(merged, base, override) ==
    /\ Keys(merged) = Keys(base) \cup Keys(override)
    /\ \A k \in Keys(base) \ Keys(override) : merged.obj[k] = base.obj[k]
    /\ \A k \in Keys(override) :
          IF k \in Keys(base) /\ IsDict(base.obj[k]) /\ IsDict(override.obj[k])
          THEN /\ IsDict(merged.obj[k])
               /\ Keys(merged.obj[k]) = Keys(base.obj[k]) \cup Keys(override.obj[k])
               /\ \A kk \in Keys(base.obj[k]) \ Keys(override.obj[k]) :
                     merged.obj[k].obj[kk] = base.obj[k].obj[kk]
               /\ \A kk \in Keys(override.obj[k]) :
                     ~IsDict(override.obj[k].obj[kk])
                        => merged.obj[k].obj[kk] = override.obj[k].obj[kk]
          ELSE merged.obj[k] = override.obj[k]

\* The records that are the deep merge of the fetched record of r with its
\* body.
TxMerges(r) ==
    {m \in {deep_merge(tx[r].existing.some, body_json(tx[r].body))} :
        IsDeepMerge(m, tx[r].existing.some, body_json(tx[r].body))}

\* C15: a PATCH with a filter attached, whose fetched record matches, is
\* checked on the deep merge of the fetched record with the patch body: it is
\* answered 403 without being forwarded when the merge does not match the
\* filter, and otherwise the next stage receives the original patch body.
C15_PatchValidatedOnMerge ==
    \A r \in TxRequestIds :
        (TxDecided(r) /\ TxIsModify(r, {"PATCH"}) /\ TxExistingMatches(r, "true")) =>
            /\ TxMerges(r) # {}
            /\ \A merged \in TxMerges(r) :
                  IF matches(tx[r].cql2_filter.some, merged) = "true"
                  THEN tx[r].result = TxNext(tx[r].body)
                  ELSE /\ TxAnswered(r, 403)
                       /\ tx[r].result.code = "ForbiddenError"
                       /\ tx[r].pc # "forward"

\* A PATCH of a nested value, which alone does not satisfy the filter, is
\* with the next stage: the merge kept the sibling of the patched value.
C15_Witness ==
    \E r \in TxRequestIds :
        /\ tx[r].pc = "forward"
        /\ TxIsModify(r, {"PATCH"})
        /\ TxExistingMatches(r, "true")
        /\ tx[r].body = JsonBody(PatchName)
        /\ \E m \in TxMerges(r) :
              /\ m.obj["properties"].obj["name"] = Str("new")
              /\ m.obj["properties"].obj["count"] = Str("5")

\* A PATCH that moves the record out of the filter is answered 403.
C15_WitnessForbidden ==
    \E r \in TxRequestIds :
        /\ tx[r].pc = "done"
        /\ TxDecided(r)
        /\ TxIsModify(r, {"PATCH"})
        /\ TxExistingMatches(r, "true")
        /\ TxAnswered(r, 403)

\* _fetch_existing returned None for r: the upstream answered 404.
TxFetchedNone(r) ==
    tx[r].fetched /\ tx[r].fetch = "ok" /\ tx[r].existing = None

\* C16: when the fetch of the current record returns None, a PUT and a DELETE
\* are answered 502 and the write is not forwarded.
C16_FetchNoneAnswered502 ==
    \A r \in TxRequestIds :
        (TxDecided(r) /\ TxIsModify(r, {"PUT", "DELETE"}) /\ TxFetchedNone(r)) =>
            TxAnswered(r, 502) /\ tx[r].pc # "forward"

\* What the code does for them: 404, not forwarded; 502 is the answer to a
\* fetch that raised.
FetchNoneAnswered404 ==
    \A r \in TxRequestIds :
        (TxDecided(r) /\ TxIsModify(r, {"PUT", "DELETE"}) /\ tx[r].fetched) =>
            /\ TxFetchedNone(r) => TxAnswered(r, 404) /\ tx[r].pc # "forward"
            /\ tx[r].fetch = "HTTPError" => TxAnswered(r, 502) /\ tx[r].pc # "forward"

\* The handler of r run with `existing` as the current record upstream.
TxRunWith(r, existing) ==
    IF tx[r].method = "DELETE"
    THEN handle_delete(tx[r].cql2_filter.some, tx[r].body, "ok", existing)
    ELSE IF tx[r].body = InvalidJsonBody
    THEN TxResponse(400, "ParseError", "Request body must be valid JSON.")
    ELSE handle_update(tx[r].cql2_filter.some, tx[r].method, tx[r].body, "ok", existing)

\* The records the upstream can hold that the filter of r does not match.
TxNonMatching(r) ==
    {d \in {DocAllowed, DocDenied} : matches(tx[r].cql2_filter.some, d) = "false"}

C17_WitnessAbsent ==
    \E r \in TxRequestIds :
        /\ tx[r].pc = "done"
        /\ TxIsModify(r, {"PATCH"})
        /\ TxFetchedNone(r)
        /\ tx[r].result.kind = "response"
-----------------------------------------------------------------------------
(* Properties of the filter-build stage: what the callable returned *)

\* The callable ran for p and returned null or the empty string.
ReturnedNoFilter(p) == p.called /\ p.returned \in {"None", "''"}

\* C18: when the filter callable returns null or an empty string for a request
\* on a filter route, no error ends the request and no filter is attached; the
\* request is forwarded, and query string and body reach the next stage as the
\* caller sent them.
C18_NoFilterForwardsUnmodified ==
    \A r \in PipeRequestIds :
        LET p == pipe[r] IN
        ReturnedNoFilter(p) =>
            /\ p.raised = None
            /\ p.state = None
            /\ p.pc = "done" =>
                  /\ PipeForwarded(p)
                  /\ p.next_query_string = p.query_string
                  /\ p.next_body = Some(p.body)

\* What the code does with such a result: the request ends with the
\* AttributeError of `cql2_filter.validate()`, and nothing is sent upstream.
NoFilterRaises ==
    \A r \in PipeRequestIds :
        LET p == pipe[r] IN
        ReturnedNoFilter(p) =>
            /\ p.raised = Some("AttributeError")
            /\ p.state = None
            /\ p.upstream_body = <<>> /\ p.sent = <<>>

\* C19: an expression the callable produced is validated before it is attached
\* to the request; when validation fails the client receives the 502 response
\* "Invalid CQL2 filter" and the request is not forwarded upstream.
C19_InvalidFilterAnswered502 ==
    \A r \in PipeRequestIds :
        LET p == pipe[r] IN
        (p.called /\ p.returned = "invalid") =>
            /\ p.state = None
            /\ p.upstream_body = <<>>
            /\ p.raised = None
            /\ p.pc = "done" => (p.sent # <<>> /\ ClientStatus(p) = 502)

\* The part of C19 that the code keeps: an expression that fails validation is
\* never attached and the upstream API is not reached; the request ends with
\* the exception of validate(), no response sent.
InvalidFilterNeverAttached ==
    \A r \in PipeRequestIds :
        LET p == pipe[r] IN
        (p.called /\ p.returned = "invalid") =>
            /\ p.state = None
            /\ p.upstream_body = <<>>
            /\ p.raised = Some("ValidationError")
            /\ p.sent = <<>>
-----------------------------------------------------------------------------
(* Properties of the single-item validator: the Content-Length it releases *)

\* Cql2ResponseBodyValidator has released a whole response for p.
ValidatorReleased(p) ==
    /\ p.send = "buffered"
    /\ p.pc = "done"
    /\ p.raised = None
    /\ p.sent # <<>>

\* C20: when the single-item filter validator re-serializes or replaces a
\* response body (on its match path and on its 404 path), the Content-Length
\* of the response-start message it releases equals the byte length of the
\* body it emits.
C20_ContentLengthIsBodyLength ==
    \A r \in PipeRequestIds :
        LET p == pipe[r] IN
        ValidatorReleased(p) => p.sent[1].content_length = Len(ClientBody(p))

\* The part of C20 that the validator keeps: the error responses it builds
\* itself (404, and 502 for a body that is not JSON) carry the length of
\* their body.
ErrorResponseContentLengthIsBodyLength ==
    \A r \in PipeRequestIds :
        LET p == pipe[r] IN
        (ValidatorReleased(p) /\ ClientStatus(p) \in {404, 502})
            => p.sent[1].content_length = Len(ClientBody(p))

\* On the match path the header released is the upstream one: the length of
\* the upstream body, whatever the length of the body emitted.
MatchPathKeepsUpstreamContentLength ==
    \A r \in PipeRequestIds :
        LET p == pipe[r] IN
        (ValidatorReleased(p) /\ loads(p.upstream_body) # None
            /\ matches(p.seen.some, loads(p.upstream_body).some) = "true")
            => /\ p.sent[1].content_length = Len(p.upstream_body)
               /\ ClientBody(p) = dumps(loads(p.upstream_body).some)
-----------------------------------------------------------------------------
(* JsonResponseMiddleware: utils/middleware.py *)

\* One half of a compressed stream.  `format` is what the stream is written
\* in: "gzip", "zlib" (deflate in its zlib wrapper, what zlib.compress
\* writes), "raw" (bare deflate, what zlib.decompress(body, -MAX_WBITS)
\* reads), "br"; `text` is the bytes that were compressed.
Compressed(format, text, half) == [format |-> format, text |-> text, half |-> half]

compress_as(format, text) ==
    <<Compressed(format, text, 1), Compressed(format, text, 2)>>

\* Reading `body` as a stream in `format`: None stands for the error the
\* decompressor raises on anything else.
decompress_as(format, body) ==
    IF /\ Len(body) = 2
       /\ \A i \in 1..2 : "format" \in DOMAIN body[i]
       /\ body = compress_as(format, body[1].text)
    THEN Some(body[1].text)
    ELSE None

\* ENCODING_HANDLERS
ENCODING_HANDLERS == {"gzip", "deflate", "br"}

\* handler.compress(body): gzip.compress, zlib.compress, brotli.compress
handler_compress(content_encoding, body) ==
    compress_as(IF content_encoding = "deflate" THEN "zlib" ELSE content_encoding, body)

\* The decompression of process_message: handler.decompress(body), and for
\* deflate handler.decompress(body, -zlib.MAX_WBITS)
handler_decompress(content_encoding, body) ==
    decompress_as(IF content_encoding = "deflate" THEN "raw" ELSE content_encoding, body)

\* An http.response.start message with the headers the mutator reads.
MutStart(status, content_type, content_encoding, content_length) ==
    [type |-> "http.response.start", status |-> status,
     content_type |-> content_type, content_encoding |-> content_encoding,
     content_length |-> content_length]

\* AuthenticationExtensionMiddleware.should_transform_response: catalog,
\* collections, collection, items, item, search.
should_transform_response(path) ==
    \/ path = <<>>
    \/ re_match(Pattern(<<"collections">>, TRUE), path)
    \/ re_match(Pattern(<<"collections", AnySeg>>, TRUE), path)
    \/ re_match(Pattern(<<"collections", AnySeg, "items">>, TRUE), path)
    \/ re_match(Pattern(<<"collections", AnySeg, "items", AnySeg>>, TRUE), path)
    \/ re_match(Pattern(<<"search">>, TRUE), path)

\* AuthenticationExtensionMiddleware.transform_json for a document without
\* properties, links or assets: the extension is listed and the scheme added.
transform_json(doc) ==
    Obj([k \in Keys(doc) \cup {"stac_extensions", "auth:schemes"} |->
            CASE k = "stac_extensions" -> Arr(<<Str("authentication/v1.1.0/schema.json")>>)
              [] k = "auth:schemes" -> Single("oauth", EmptyObj)
              [] OTHER -> doc.obj[k]])

\* The nonlocal variables of one __call__.
Cell(start_message, body) == [start_message |-> start_message, body |-> body]
EmptyCell == Cell(None, <<>>)

\* A request in the mutator.
\*   transform   what should_transform_response answered
\*   reply       the response of the next app
\*   pending     the response messages the next app has yet to send
\*   sent        the response messages sent on
\*   raised      the exception that ended the request, if any
MutRequest(pc, path, reply, claims) ==
    [pc |-> pc, path |-> path, reply |-> reply, claims |-> claims,
     filter |-> None, transform |-> FALSE,
     pending |-> <<>>, sent |-> <<>>, raised |-> None]

\* The state of an ASGI scope (request.state): the token payload that
\* EnforceAuthMiddleware sets, the filter that BuildCql2FilterMiddleware sets.
ScopeState(payload, cql2_filter) == [payload |-> payload, cql2_filter |-> cql2_filter]
EmptyScopeState == ScopeState(None, None)

\* The filter a builder makes of the token payload it finds in the scope.
build_filter(payload) ==
    IF payload = None THEN <<"private", "=", "false">>
    ELSE <<"owner", "=", payload.some>>

\* A __call__ shares its start_message and body with every other __call__.
closure_shared(r) == "m1"

\* The cell holding the variables of the __call__ for request r: each call
\* has its own.
closure(r) == r

\* A send callable that hands every message of the upstream to the client as
\* it comes.
process_message_unbuffered(cell, req, message) ==
    [cell |-> cell, req |-> [req EXCEPT !.sent = Append(@, message)]]

\* process_message(message), with `cell` the variables of the call and `req`
\* its request: the cell and the request afterwards.
process_message(cell, req, message) ==
    IF message.type = "http.response.start"
    THEN [cell |-> [cell EXCEPT !.start_message = Some(message)], req |-> req]
    ELSE
    LET body == cell.body \o message.body
        buffered == [cell EXCEPT !.body = body]
        failed(exc) ==
            [cell |-> buffered, req |-> [req EXCEPT !.raised = Some(exc), !.pc = "done"]]
    IN  IF "more_body" \notin DOMAIN message THEN failed("KeyError")
        ELSE IF message.more_body THEN [cell |-> buffered, req |-> req]
        ELSE IF cell.start_message = None THEN failed("TypeError")
        ELSE
        LET start == cell.start_message.some
            content_encoding == start.content_encoding
            handler == IF content_encoding \in ENCODING_HANDLERS
                       THEN Some(content_encoding) ELSE None
            text == IF content_encoding = "" THEN Some(body)
                    ELSE IF handler = None THEN None
                    ELSE handler_decompress(content_encoding, body)
        IN  IF content_encoding # "" /\ handler = None THEN failed("AssertionError")
            ELSE IF text = None THEN failed("DecompressError")
            ELSE IF loads(text.some) = None THEN failed("JSONDecodeError")
            ELSE
            LET transformed == transform_json(loads(text.some).some)
                dumped == dumps(transformed)
                out == IF handler # None
                       THEN handler_compress(content_encoding, dumped) ELSE dumped
                new_start == [start EXCEPT !.content_length = Len(out)]
            IN  [cell |-> [buffered EXCEPT !.body = out,
                                           !.start_message = Some(new_start)],
                 req |-> [req EXCEPT !.sent = req.sent \o
                                        <<new_start, ResponseBody(out, FALSE)>>]]

\* The response of the next app.  more_body_key: its last body message
\* carries "more_body": False (a streamed response); without the key the
\* message is the last one by the default of ASGI.
MutReply(status, content_type, content_encoding, body, split) ==
    [status |-> status, content_type |-> content_type,
     content_encoding |-> content_encoding, body |-> body, split |-> split,
     more_body_key |-> TRUE]

\* A body message without the more_body key.
LastResponseBody(body) == [type |-> "http.response.body", body |-> body]

\* The last body message of a reply.
last_message(reply, body) ==
    IF reply.more_body_key THEN ResponseBody(body, FALSE) ELSE LastResponseBody(body)

\* Its response messages: the body in one message, or split in two after
\* `split` bytes.
mut_messages(reply) ==
    <<MutStart(reply.status, reply.content_type, reply.content_encoding,
               Len(reply.body))>> \o
    (IF reply.split >= Len(reply.body)
     THEN <<last_message(reply, reply.body)>>
     ELSE <<ResponseBody(SubSeq(reply.body, 1, reply.split), TRUE),
            last_message(reply, SubSeq(reply.body, reply.split + 1, Len(reply.body)))>>)

\* The requests the mutator can hold at a time.
MutRequestIds == {"m1", "m2"}

MutIdle == MutRequest("idle", <<>>, MutReply(0, "", "", <<>>, 0), "")

\* The `sub` claim of the tokens presented.
MutClaims == {"alice", "bob"}

\* A catalog, and an HTML page.
CatalogDoc == Single("id", Str("catalog"))
HtmlBody == <<Byte("html", EmptyObj)>>

MutPaths == {<<>>, <<"api">>}

MutReplies ==
    {MutReply(200, "application/json", "", dumps(CatalogDoc), split) : split \in {1, 2}}
    \cup {MutReply(200, "application/json", "",
                   <<Byte("open", CatalogDoc), Whitespace, Byte("close", CatalogDoc)>>, 3),
          MutReply(200, "application/json", "", <<Byte("open", CatalogDoc)>>, 1),
          MutReply(200, "text/html", "", HtmlBody, 1),
          MutReply(404, "application/json", "", dumps(NotFoundDoc), 2),
          MutReply(200, "application/json", "gzip",
                   compress_as("gzip", dumps(CatalogDoc)), 1),
          MutReply(200, "application/json", "br",
                   compress_as("br", dumps(CatalogDoc)), 2),
          MutReply(200, "application/json", "deflate",
                   compress_as("raw", dumps(CatalogDoc)), 2),
          MutReply(200, "application/json", "deflate",
                   compress_as("zlib", dumps(CatalogDoc)), 2),
          MutReply(200, "application/json", "zstd",
                   compress_as("zstd", dumps(CatalogDoc)), 2)}

InitMutator ==
    /\ cells = [c \in MutRequestIds |-> EmptyCell]
    /\ mutator = [r \in MutRequestIds |-> MutIdle]
    /\ scope_state = [r \in MutRequestIds |-> EmptyScopeState]
    /\ InitAuthIdle
    /\ InitTxIdle
    /\ InitPipeIdle
    /\ InitMatchIdle
    /\ InitOpenApiIdle
    /\ InitLinksIdle
    /\ InitProxyIdle
    /\ InitDiscoveryIdle
    /\ InitKeySetIdle
    /\ InitHealthIdle
    /\ InitBasePathIdle
    /\ InitMemoryCacheIdle

\* A request with a valid token arrives: EnforceAuthMiddleware puts the
\* token's payload on the state of the request's scope. The upstream will
\* answer the request with `reply`.
MutArrive(r) ==
    /\ mutator[r].pc = "idle"
    /\ \E path \in MutPaths, reply \in MutReplies, claims \in MutClaims :
          /\ mutator' = [mutator EXCEPT ![r] = MutRequest("call", path, reply, claims)]
          /\ scope_state' = [scope_state EXCEPT ![r] = ScopeState(Some(claims), None)]
    /\ UNCHANGED <<cells, notMutatorVars>>

\* The filter is built from the state of the request's scope and put there,
\* then JsonResponseMiddleware.__call__ runs up to the call of the next app,
\* which forwards the request with the filter found on the scope.
MutCall(r) ==
    /\ mutator[r].pc = "call"
    /\ LET transform == should_transform_response(mutator[r].path)
           cql2_filter == build_filter(scope_state[r].payload)
       IN  /\ scope_state' = [scope_state EXCEPT ![r].cql2_filter = Some(cql2_filter)]
           /\ mutator' = [mutator EXCEPT ![r].pc = "respond",
                                         ![r].filter = Some(cql2_filter),
                                         ![r].transform = transform,
                                         ![r].pending = mut_messages(mutator[r].reply)]
           /\ cells' = IF transform THEN [cells EXCEPT ![closure(r)] = EmptyCell]
                       ELSE cells
    /\ UNCHANGED notMutatorVars

\* The next app sends one response message: through process_message, or
\* through the server's send when the response is not to be transformed.
MutSend(r) ==
    /\ mutator[r].pc = "respond"
    /\ LET p == mutator[r]
           message == Head(p.pending)
           q == [p EXCEPT !.pending = Tail(p.pending)]
           after == IF p.transform
                    THEN process_message(cells[closure(r)], q, message)
                    ELSE [cell |-> cells[closure(r)],
                          req |-> [q EXCEPT !.sent = Append(q.sent, message)]]
           done == after.req.raised = None /\ after.req.pending = <<>>
       IN  /\ mutator' = [mutator EXCEPT ![r] =
                             IF done THEN [after.req EXCEPT !.pc = "done"]
                             ELSE after.req]
           /\ cells' = [cells EXCEPT ![closure(r)] = after.cell]
    /\ UNCHANGED <<scope_state, notMutatorVars>>

\* The request is over, and the variables of its __call__ are gone.
MutDone(r) ==
    /\ mutator[r].pc = "done"
    /\ mutator' = [mutator EXCEPT ![r] = MutIdle]
    /\ cells' = IF mutator[r].transform THEN [cells EXCEPT ![closure(r)] = EmptyCell]
                ELSE cells
    /\ scope_state' = [scope_state EXCEPT ![r] = EmptyScopeState]
    /\ UNCHANGED notMutatorVars

NextMutator ==
    \E r \in MutRequestIds :
        \/ MutArrive(r)
        \/ MutCall(r)
        \/ MutSend(r)
        \/ MutDone(r)

\* The response mutator handling requests concurrently.
SpecMutator == InitMutator /\ [][NextMutator]_vars
-----------------------------------------------------------------------------
(* Properties of the response mutator *)

\* The mutator has seen the whole response to r.
MutFinished(p) == p.pc = "done"

\* The body of a reply once its Content-Encoding is undone as process_message
\* undoes it, None when that fails.
MutReplyText(reply) ==
    IF reply.content_encoding = "" THEN Some(reply.body)
    ELSE IF reply.content_encoding \notin ENCODING_HANDLERS THEN None
    ELSE handler_decompress(reply.content_encoding, reply.body)

\* The accumulated body of the reply is not parseable JSON.
MutNotJson(reply) ==
    MutReplyText(reply) # None /\ loads(MutReplyText(reply).some) = None

\* The body messages of a response, joined.
MutSentBody(p) == concat_bodies(p.sent)

\* C21: when the mutator has decided to transform a response and the
\* accumulated upstream body is not parseable JSON, the client receives a 502
\* response with body {"message": "Not found"}: the mutator does not raise and
\* does not leave the client without a response.
C21_NonJsonAnswered502 ==
    \A r \in MutRequestIds :
        LET p == mutator[r] IN
        (MutFinished(p) /\ p.transform /\ MutNotJson(p.reply)) =>
            /\ p.raised = None
            /\ p.sent # <<>>
            /\ p.sent[1].status = 502
            /\ MutSentBody(p) = dumps(Single("message", Str("Not found")))

\* What the mutator does with such a body: json.loads raises, and nothing is
\* sent to the client.
NonJsonRaises ==
    \A r \in MutRequestIds :
        LET p == mutator[r] IN
        (MutFinished(p) /\ p.transform /\ MutNotJson(p.reply)) =>
            p.raised = Some("JSONDecodeError") /\ p.sent = <<>>

\* The single-item validator does answer 502 {"message": "Not found"} for an
\* upstream body that is not JSON.
ValidatorAnswers502 ==
    \A r \in PipeRequestIds :
        LET p == pipe[r] IN
        (ValidatorReleased(p) /\ loads(p.upstream_body) = None) =>
            /\ ClientStatus(p) = 502
            /\ ClientBody(p) = dumps(Single("message", Str("Not found")))

\* The response is one a mutator is to transform: status 2xx, content type
\* JSON.
MutTransformable(reply) ==
    /\ reply.status \in 200..299
    /\ reply.content_type \in {"application/json", "application/geo+json"}

\* C22: the mutator transforms a response only if its status is 2xx and its
\* content type is JSON; of every other response the response-start message
\* and every body chunk reach the client unchanged, in their original order.
C22_OnlyJson2xxTransformed ==
    \A r \in MutRequestIds :
        LET p == mutator[r] IN
        (MutFinished(p) /\ ~MutTransformable(p.reply)) =>
            p.raised = None /\ p.sent = mut_messages(p.reply)

\* The part of C22 that the code keeps: the response to a request that
\* should_transform_response turns down reaches the client unchanged.
UntransformedPathUnchanged ==
    \A r \in MutRequestIds :
        LET p == mutator[r] IN
        (MutFinished(p) /\ ~should_transform_response(p.path)) =>
            p.raised = None /\ p.sent = mut_messages(p.reply)

\* The mutator has released a transformed response for p.
MutTransformed(p) ==
    MutFinished(p) /\ p.transform /\ p.raised = None /\ Len(p.sent) = 2

\* The serialized transformed JSON of a reply.
MutExpectedText(reply) == dumps(transform_json(loads(MutReplyText(reply).some).some))

\* C23: for gzip, deflate and br, a transformed response keeps its
\* Content-Encoding header, and the decoding step the mutator applied to the
\* upstream body, applied to the emitted body, yields the serialized
\* transformed JSON.
C23_EncodingRoundTrips ==
    \A r \in MutRequestIds :
        LET p == mutator[r] IN
        (MutTransformed(p) /\ p.reply.content_encoding \in ENCODING_HANDLERS) =>
            /\ p.sent[1].content_encoding = p.reply.content_encoding
            /\ handler_decompress(p.reply.content_encoding, MutSentBody(p))
                  = Some(MutExpectedText(p.reply))

\* The part of C23 that the code keeps: gzip and br round-trip, and the
\* header is kept for all three.
GzipAndBrRoundTrip ==
    \A r \in MutRequestIds :
        LET p == mutator[r] IN
        (MutTransformed(p) /\ p.reply.content_encoding \in ENCODING_HANDLERS) =>
            /\ p.sent[1].content_encoding = p.reply.content_encoding
            /\ p.reply.content_encoding \in {"gzip", "br"} =>
                  handler_decompress(p.reply.content_encoding, MutSentBody(p))
                      = Some(MutExpectedText(p.reply))
            /\ p.reply.content_encoding = "deflate" =>
                  MutSentBody(p) = compress_as("zlib", MutExpectedText(p.reply))
-----------------------------------------------------------------------------
(* OpenApiMiddleware.augment_spec: middleware/UpdateOpenApiMiddleware.py *)

oidc_auth_scheme_name == "oidcAuth"

\* One entry of an operation's `security` list: {scheme: [scopes...]}.
SecurityRequirement(scheme, scopes) == [scheme |-> scheme, scopes |-> scopes]

\* The (pattern index, method index) pairs at which the loops of path_matches
\* stop: a method entry that names the method, or a ("METHOD", [scopes])
\* tuple, which has no casefold().
path_matches_stops(path, method, endpoints) ==
    {ij \in UNION {{<<i, j>> : j \in 1..Len(endpoints[i].methods)} :
                        i \in 1..Len(endpoints)} :
        /\ re_match(endpoints[ij[1]].pattern, path)
        /\ \/ endpoints[ij[1]].methods[ij[2]].is_tuple
           \/ casefold(method) = casefold(endpoints[ij[1]].methods[ij[2]].method)}

\* A path_matches that never finds the operation in the map.
path_matches_never(path, method, endpoints) == Some(FALSE)

\* path_matches: Some(TRUE), Some(FALSE), or the AttributeError of `tuple.casefold()`.
path_matches(path, method, endpoints) ==
    LET stops == path_matches_stops(path, method, endpoints)
    IN  IF stops = {} THEN Some(FALSE)
        ELSE LET first == CHOOSE h \in stops :
                    \A g \in stops : h[1] < g[1] \/ (h[1] = g[1] /\ h[2] <= g[2])
             IN  IF endpoints[first[1]].methods[first[2]].is_tuple
                 THEN Error("AttributeError")
                 ELSE Some(TRUE)

\* requires_auth of one operation of the document.
requires_auth(path, method, private, public, default_pub) ==
    IF default_pub THEN path_matches(path, method, private)
    ELSE LET found == path_matches(path, method, public)
         IN  IF "some" \in DOMAIN found THEN Some(~found.some) ELSE found

\* The operations of the upstream document, none with a `security` entry:
\* OpenAPI writes methods in lower case and paths as templates.
OpenApiPaths == {<<"collections">>, <<"collections", "{collection_id}">>, <<"api">>}
OpenApiMethods == {"get", "post"}
OpenApiOperations == OpenApiPaths \X OpenApiMethods

\* augment_spec: the `security` list of every operation, or the exception
\* that left the loop.
augment_spec(private, public, default_pub) ==
    LET needs == [op \in OpenApiOperations |->
                    requires_auth(op[1], op[2], private, public, default_pub)]
    IN  IF \E op \in OpenApiOperations : "error" \in DOMAIN needs[op]
        THEN Error("AttributeError")
        ELSE Dict([op \in OpenApiOperations |->
                    IF needs[op].some
                    THEN <<SecurityRequirement(oidc_auth_scheme_name, <<>>)>>
                    ELSE <<>>])

InitOpenApi ==
    /\ openapi = None
    /\ InitAuthIdle
    /\ InitTxIdle
    /\ InitPipeIdle
    /\ InitMutatorIdle
    /\ InitMatchIdle
    /\ InitLinksIdle
    /\ InitProxyIdle
    /\ InitDiscoveryIdle
    /\ InitKeySetIdle
    /\ InitHealthIdle
    /\ InitBasePathIdle
    /\ InitMemoryCacheIdle

\* The document is requested under some configuration of the middleware.
ServeOpenApi ==
    /\ openapi = None
    /\ \E private \in RuleMaps, public \in RuleMaps, default_pub \in BOOLEAN :
          openapi' = Some([private_endpoints |-> private,
                           public_endpoints |-> public,
                           default_public |-> default_pub,
                           served |-> augment_spec(private, public, default_pub)])
    /\ UNCHANGED notOpenApiVars

ServeOpenApiReturn ==
    /\ openapi # None
    /\ openapi' = None
    /\ UNCHANGED notOpenApiVars

NextOpenApi == ServeOpenApi \/ ServeOpenApiReturn

SpecOpenApi == InitOpenApi /\ [][NextOpenApi]_vars

\* What the endpoint classifier says of an operation of the served document.
OpenApiClassified(op) ==
    find_match(op[1], op[2], openapi.some.private_endpoints,
               openapi.some.public_endpoints, openapi.some.default_public)

OpenApiServedDocument == openapi # None /\ "dict" \in DOMAIN openapi.some.served

OidcEntries(op) ==
    LET security == openapi.some.served.dict[op]
    IN  {i \in 1..Len(security) : security[i].scheme = oidc_auth_scheme_name}

\* C24: in the served OpenAPI document an operation carries a `security`
\* entry naming the OIDC scheme if and only if the endpoint classifier marks
\* it private, and that entry lists the required scopes of the matching rule.
C24_SecurityIffPrivateWithScopes ==
    openapi # None =>
        /\ OpenApiServedDocument
        /\ \A op \in OpenApiOperations :
              /\ OidcEntries(op) # {} <=> OpenApiClassified(op).is_private
              /\ \A i \in OidcEntries(op) :
                    openapi.some.served.dict[op][i].scopes
                        = OpenApiClassified(op).required_scopes

\* What the code does: whenever a document is served, an operation carries
\* the OIDC entry exactly when the classifier marks it private, and the entry
\* lists no scope whatever the rule requires.
SecurityIffPrivateNoScopes ==
    OpenApiServedDocument =>
        \A op \in OpenApiOperations :
            /\ OidcEntries(op) # {} <=> OpenApiClassified(op).is_private
            /\ \A i \in OidcEntries(op) :
                  openapi.some.served.dict[op][i].scopes = <<>>

\* A document is served in which a private operation carries the entry.
SecurityIffPrivateNoScopes_Witness ==
    /\ OpenApiServedDocument
    /\ \E op \in OpenApiOperations : OidcEntries(op) # {}
    /\ \E op \in OpenApiOperations : OidcEntries(op) = {}

\* The map augment_spec consults.
OpenApiConsulted ==
    IF openapi.some.default_public THEN openapi.some.private_endpoints
    ELSE openapi.some.public_endpoints

\* augment_spec raises, and serves no document, only when a rule of the
\* consulted map carries scopes.
ScopedRuleRaises ==
    (openapi # None /\ ~OpenApiServedDocument) =>
        \E i \in 1..Len(OpenApiConsulted) :
            \E j \in 1..Len(OpenApiConsulted[i].methods) :
                OpenApiConsulted[i].methods[j].is_tuple
-----------------------------------------------------------------------------
(* ProcessLinksMiddleware: middleware/ProcessLinksMiddleware.py *)

\* URLs are strings, written as sequences of atoms:
\* http://upstream:80/stac/collections is
\* <<"http", "://", "upstream", ":", "80", "/", "stac", "/", "collections">>.

\* str.startswith
startswith(s, prefix) ==
    Len(prefix) <= Len(s) /\ SubSeq(s, 1, Len(prefix)) = prefix

\* The index of the first occurrence of an atom, 0 when it is absent.
find(s, atom) ==
    IF \E i \in 1..Len(s) : s[i] = atom
    THEN CHOOSE i \in 1..Len(s) : s[i] = atom /\ \A j \in 1..(i - 1) : s[j] # atom
    ELSE 0

\* str.lower() on the host names in use.
lower(atom) ==
    CASE atom = "Upstream" -> "upstream"
      [] atom = "Proxy" -> "proxy"
      [] OTHER -> atom

ParseResult(scheme, netloc, path) ==
    [scheme |-> scheme, netloc |-> netloc, path |-> path]

\* urllib.parse.urlparse on URLs without params, query or fragment.
urlparse(url) ==
    IF Len(url) >= 2 /\ url[2] = "://"
    THEN LET rest == SubSeq(url, 3, Len(url))
             slash == find(rest, "/")
         IN  IF slash = 0 THEN ParseResult(<<url[1]>>, rest, <<>>)
             ELSE ParseResult(<<url[1]>>, SubSeq(rest, 1, slash - 1),
                              SubSeq(rest, slash, Len(rest)))
    ELSE ParseResult(<<>>, <<>>, url)

\* urllib.parse.urlunparse: a path that does not start with "/" gets one
\* when there is a netloc.
urlunparse(parts) ==
    LET url == IF parts.netloc # <<>>
               THEN <<"//">> \o parts.netloc
                    \o (IF parts.path # <<>> /\ parts.path[1] # "/"
                        THEN <<"/">> ELSE <<>>) \o parts.path
               ELSE parts.path
    IN  IF parts.scheme = <<>> THEN url
        ELSE IF url # <<>> /\ url[1] = "//"
             THEN parts.scheme \o <<"://">> \o Tail(url)
             ELSE parts.scheme \o <<":">> \o url

\* _extract_hostname (netlocs without IPv6 literals).
extract_hostname(netloc) ==
    LET colon == find(netloc, ":")
    IN  IF colon = 0 THEN netloc ELSE SubSeq(netloc, 1, colon - 1)

\* int() on the port numbers in use; None stands for ValueError.
port_int(s) ==
    CASE s = <<"80">> -> Some(80)
      [] s = <<"443">> -> Some(443)
      [] s = <<"8080">> -> Some(8080)
      [] OTHER -> None

\* _get_port: a missing or unreadable port is the scheme's standard port.
get_port(netloc, scheme) ==
    LET colon == find(netloc, ":")
        standard == IF scheme = <<"https">> THEN 443 ELSE 80
    IN  IF colon = 0 THEN standard
        ELSE LET port == port_int(SubSeq(netloc, colon + 1, Len(netloc)))
             IN  IF port = None THEN standard ELSE port.some

netlocs_match(netloc1, scheme1, netloc2, scheme2) ==
    LET host1 == extract_hostname(netloc1)
        host2 == extract_hostname(netloc2)
    IN  /\ [i \in 1..Len(host1) |-> lower(host1[i])]
            = [i \in 1..Len(host2) |-> lower(host2[i])]
        /\ get_port(netloc1, scheme1) = get_port(netloc2, scheme2)

\* _update_link: the href the link has afterwards.
update_link(href, request_url, upstream_url, root_path) ==
    LET parsed_link == urlparse(href)
        matches_request == netlocs_match(parsed_link.netloc, parsed_link.scheme,
                                         request_url.netloc, request_url.scheme)
        link_matches_upstream ==
            netlocs_match(parsed_link.netloc, parsed_link.scheme,
                          upstream_url.netloc, upstream_url.scheme)
        has_prefix == upstream_url.path # <<"/">>
                        /\ startswith(parsed_link.path, upstream_url.path)
        stripped == IF has_prefix
                    THEN SubSeq(parsed_link.path, Len(upstream_url.path) + 1,
                                Len(parsed_link.path))
                    ELSE parsed_link.path
        updated == ParseResult(
                     IF link_matches_upstream THEN request_url.scheme
                     ELSE parsed_link.scheme,
                     request_url.netloc,
                     IF root_path # <<>> THEN root_path \o stripped ELSE stripped)
    IN  IF ~(matches_request \/ link_matches_upstream) THEN href
        ELSE IF upstream_url.path # <<"/">>
                /\ ~startswith(parsed_link.path, upstream_url.path) THEN href
        ELSE urlunparse(updated)

\* transform_json: every link of the document goes through _update_link.
links_transform_json(doc, request_base_url, upstream_href, root_path) ==
    [i \in 1..Len(doc) |->
        update_link(doc[i], urlparse(request_base_url), urlparse(upstream_href),
                    root_path)]

\* The longest `links` array, and how often a document is rewritten.
MaxLinks == 1
MaxPasses == 2

LinkUpstreamUrls ==
    { <<"http", "://", "upstream">>,
      <<"http", "://", "upstream", "/">>,
      <<"http", "://", "upstream", ":", "8080", "/", "stac">> }

LinkRootPaths == {<<>>, <<"/", "api">>}

LinkRequestUrls == {<<"http", "://", "proxy">>, <<"https", "://", "proxy">>}

LinkNetlocs ==
    { <<"upstream">>, <<"Upstream", ":", "80">>, <<"upstream", ":", "8080">>,
      <<"proxy">>, <<"proxy", ":", "443">>, <<"other">> }

LinkPaths ==
    { <<>>, <<"/">>, <<"/", "collections">>, <<"/", "stac">>,
      <<"/", "stac", "/", "collections">>, <<"/", "stac", "/", "stac">>,
      <<"/", "stac", "ks">>, <<"/", "api", "/", "collections">> }

LinkHrefs ==
    {<<scheme, "://">> \o netloc \o path :
        scheme \in {"http", "https"}, netloc \in LinkNetlocs, path \in LinkPaths}
    \cup {<<"/", "collections">>}

LinkDocuments == SeqsUpTo(LinkHrefs, MaxLinks) \ {<<>>}

InitLinks ==
    /\ links = None
    /\ InitAuthIdle
    /\ InitTxIdle
    /\ InitPipeIdle
    /\ InitMutatorIdle
    /\ InitMatchIdle
    /\ InitOpenApiIdle
    /\ InitProxyIdle
    /\ InitDiscoveryIdle
    /\ InitKeySetIdle
    /\ InitHealthIdle
    /\ InitBasePathIdle
    /\ InitMemoryCacheIdle

\* A document arrives from upstream for a request to the proxy.
LinksArrive ==
    /\ links = None
    /\ \E upstream_href \in LinkUpstreamUrls, root_path \in LinkRootPaths,
          request_base_url \in LinkRequestUrls, doc \in LinkDocuments :
          links' = Some([upstream_url |-> upstream_href, root_path |-> root_path,
                         request_base_url |-> request_base_url,
                         upstream_doc |-> doc, previous |-> doc, doc |-> doc,
                         passes |-> 0])
    /\ UNCHANGED notLinksVars

\* The document, as it is now, goes through transform_json.
LinksTransform ==
    /\ links # None
    /\ links.some.passes < MaxPasses
    /\ links' = Some([links.some EXCEPT
                        !.previous = links.some.doc,
                        !.doc = links_transform_json(links.some.doc,
                                    links.some.request_base_url,
                                    links.some.upstream_url,
                                    links.some.root_path),
                        !.passes = @ + 1])
    /\ UNCHANGED notLinksVars

LinksReturn ==
    /\ links # None
    /\ links.some.passes >= 1
    /\ links' = None
    /\ UNCHANGED notLinksVars

NextLinks == LinksArrive \/ LinksTransform \/ LinksReturn

SpecLinks == InitLinks /\ [][NextLinks]_vars

LinksRewrittenAgain == links # None /\ links.some.passes >= 2

\* C25: rewriting an already rewritten document, with the client-visible
\* host, the upstream URL and the root path unchanged, leaves every href as
\* the first rewrite made it.
C25_RewriteIdempotent ==
    LinksRewrittenAgain => links.some.doc = links.some.previous

\* What the code does: the second rewrite changes nothing when there is no
\* root path to prepend and no upstream path to strip.
RewriteIdempotentWithoutPaths ==
    (/\ LinksRewrittenAgain
     /\ links.some.root_path = <<>>
     /\ urlparse(links.some.upstream_url).path \in {<<>>, <<"/">>})
        => links.some.doc = links.some.previous

\* A document that the first rewrite changed was rewritten a second time.
RewriteIdempotentWithoutPaths_Witness ==
    /\ LinksRewrittenAgain
    /\ links.some.root_path = <<>>
    /\ urlparse(links.some.upstream_url).path \in {<<>>, <<"/">>}
    /\ links.some.previous # links.some.upstream_doc
-----------------------------------------------------------------------------
(* Reverse proxy: handlers/reverse_proxy.py and proxy.py *)

\* Request bodies are byte strings, written as sequences of atoms.
BodyEmpty == <<>>
BodyJsonCompact == <<"{", "\"a\"", ":", "1", "}">>
BodyJsonSpaced == <<"{", "\"a\"", ":", " ", "1", "}">>
BodyPlainText == <<"hello">>
BodyNotUtf8 == <<"\\xff">>

\* bytes.decode(): the text, or UnicodeDecodeError.
bytes_decode(body) ==
    IF \E i \in 1..Len(body) : body[i] = "\\xff"
    THEN Error("UnicodeDecodeError")
    ELSE Str(body)

\* json.loads on the texts above: the one object they spell, or None for
\* JSONDecodeError.
proxy_json_loads(text) ==
    IF SelectSeq(text.str, LAMBDA a : a # " ") = BodyJsonCompact
    THEN Some(Obj(<<"a", 1>>))
    ELSE None

\* json.dumps escapes the quotes inside a string.
json_escape(atom) == IF atom = "\"a\"" THEN "\\\"a\\\"" ELSE atom

\* httpx's encode_json (`json=` of build_request): json.dumps of the value,
\* a string included, with the separators of the httpx version installed.
encode_json(value, compact) ==
    IF "str" \in DOMAIN value
    THEN <<"\"">> \o [i \in 1..Len(value.str) |-> json_escape(value.str[i])]
                  \o <<"\"">>
    ELSE IF compact THEN BodyJsonCompact ELSE BodyJsonSpaced

\* The body ReverseProxyHandler.proxy_request sends upstream, or the exception
\* it raises.
proxy_request(method, body, filter_builder, is_search_endpoint, compact) ==
    LET text == bytes_decode(body)
        parsed == proxy_json_loads(text)
        value == IF /\ filter_builder
                    /\ method \in {"POST", "PUT"}
                    /\ is_search_endpoint
                    /\ parsed # None
                 THEN parsed.some ELSE text
    IN  IF "error" \in DOMAIN text THEN text
        ELSE Some(encode_json(value, compact))

\* The body ReverseProxy.passthrough sends upstream: `content=request.stream()`.
passthrough(body) == Some(body)

ProxyHandlers == {"proxy_request", "passthrough"}
ProxyMethods == {"GET", "POST", "PUT", "DELETE"}
ProxyBodies ==
    {BodyEmpty, BodyJsonCompact, BodyJsonSpaced, BodyPlainText, BodyNotUtf8}

InitProxy ==
    /\ proxied = None
    /\ InitAuthIdle
    /\ InitTxIdle
    /\ InitPipeIdle
    /\ InitMutatorIdle
    /\ InitMatchIdle
    /\ InitOpenApiIdle
    /\ InitLinksIdle
    /\ InitDiscoveryIdle
    /\ InitKeySetIdle
    /\ InitHealthIdle
    /\ InitBasePathIdle
    /\ InitMemoryCacheIdle

\* The preceding stage hands a request to the proxy.
ProxyArrive ==
    /\ proxied = None
    /\ \E handler \in ProxyHandlers, method \in ProxyMethods,
          body \in ProxyBodies, filter_builder \in BOOLEAN,
          is_search_endpoint \in BOOLEAN, compact \in BOOLEAN :
          /\ method = "GET" => body = BodyEmpty
          /\ proxied' = Some([handler |-> handler, method |-> method,
                              body |-> body, filter_builder |-> filter_builder,
                              is_search_endpoint |-> is_search_endpoint,
                              compact |-> compact, pc |-> "received",
                              sent |-> None])
    /\ UNCHANGED notProxyVars

\* The proxy builds the upstream request and sends it.
ProxySend ==
    /\ proxied # None
    /\ proxied.some.pc = "received"
    /\ LET req == proxied.some
       IN  proxied' = Some([req EXCEPT
                !.pc = "sent",
                !.sent = IF req.handler = "passthrough"
                         THEN passthrough(req.body)
                         ELSE proxy_request(req.method, req.body,
                                            req.filter_builder,
                                            req.is_search_endpoint,
                                            req.compact)])
    /\ UNCHANGED notProxyVars

ProxyReturn ==
    /\ proxied # None
    /\ proxied.some.pc = "sent"
    /\ proxied' = None
    /\ UNCHANGED notProxyVars

NextProxy == ProxyArrive \/ ProxySend \/ ProxyReturn

SpecProxy == InitProxy /\ [][NextProxy]_vars

ProxySent == proxied # None /\ proxied.some.pc = "sent"

\* C26: the body sent upstream is the body received from the preceding
\* stage; a GET that arrived with no body is forwarded with an empty body.
C26_BodyForwardedUnchanged ==
    ProxySent => proxied.some.sent = Some(proxied.some.body)

\* What the code does: ReverseProxy.passthrough forwards the bytes it received.
PassthroughForwardsBody ==
    (ProxySent /\ proxied.some.handler = "passthrough")
        => proxied.some.sent = Some(proxied.some.body)

\* passthrough forwarded a request that has a body.
PassthroughForwardsBody_Witness ==
    /\ ProxySent
    /\ proxied.some.handler = "passthrough"
    /\ proxied.some.body = BodyJsonSpaced

\* proxy_request never forwards the bytes it received, unless it parsed a
\* search body that was already written as the encoder writes it.
ProxyRequestReencodes ==
    (ProxySent /\ proxied.some.handler = "proxy_request"
       /\ proxied.some.sent = Some(proxied.some.body))
        => /\ proxied.some.filter_builder
           /\ proxied.some.is_search_endpoint
           /\ proxied.some.method \in {"POST", "PUT"}
           /\ proxied.some.body \in {BodyJsonCompact, BodyJsonSpaced}
-----------------------------------------------------------------------------
(* Concurrent requests in the response mutator *)

\* The request as process_message leaves it when the messages of its own
\* reply are the only ones that ever reach its cell.
RECURSIVE MutAlone(_, _, _)
MutAlone(cell, req, pending) ==
    IF pending = <<>> \/ req.raised # None THEN req
    ELSE LET after == process_message(cell, req, Head(pending))
         IN  MutAlone(after.cell, after.req, Tail(pending))

\* What the client of a request gets from its own reply alone, and the
\* exception raised, if any.
MutOwnOutcome(p) ==
    IF p.transform
    THEN LET alone == MutAlone(EmptyCell, MutRequest("respond", p.path, p.reply, p.claims),
                               mut_messages(p.reply))
         IN  [sent |-> alone.sent, raised |-> alone.raised]
    ELSE [sent |-> mut_messages(p.reply), raised |-> None]

\* C27: under any interleaving of concurrently handled requests, the filter
\* used for a request is the one built from the claims of that request's own
\* token, and the response a mutator sends, or the exception it raises, is
\* what the request's own start message and body yield.
C27_RequestsIsolated ==
    \A r \in MutRequestIds :
        /\ mutator[r].pc \in {"respond", "done"} =>
              mutator[r].filter = Some(build_filter(Some(mutator[r].claims)))
        /\ MutFinished(mutator[r]) =>
              /\ mutator[r].sent = MutOwnOutcome(mutator[r]).sent
              /\ mutator[r].raised = MutOwnOutcome(mutator[r]).raised

\* A transformed response was completed for one token while the mutator held
\* part of a different response for another token.
C27_Witness ==
    \E r, q \in MutRequestIds :
        /\ r # q
        /\ MutFinished(mutator[r])
        /\ mutator[r].transform /\ mutator[r].raised = None
        /\ mutator[q].pc = "respond" /\ mutator[q].transform
        /\ cells[closure(q)].body # <<>>
        /\ mutator[q].reply.body # mutator[r].reply.body
        /\ mutator[q].claims # mutator[r].claims
-----------------------------------------------------------------------------
(* The OIDC discovery document over the life of the process:
   AuthenticationExtensionMiddleware.__post_init__ and
   EnforceAuthMiddleware.jwks_client *)

\* The requests handled over the life of the process.
MaxDiscoveryRequests == 3

DiscoveryRequestIds == {"d1", "d2"}

\* The outcomes of httpx.get(...).json() in __post_init__, which does not
\* call raise_for_status: the document, an error response whose body is
\* JSON, an error response whose body is not, no response.
PostInitOutcomes == {"ok", "error_json", "error_text", "RequestError"}

\* The auth_scheme __post_init__ builds of the JSON it got.
auth_scheme_of(outcome) ==
    IF outcome = "ok" THEN Some("authorization_endpoint") ELSE Some("None")

\* AuthenticationExtensionMiddleware.__post_init__, run when the middleware
\* stack is built: the auth_scheme afterwards (None when an exception left
\* the constructor) and whether the document was fetched.
post_init(oidc_config_url, auth_scheme, outcome) ==
    IF oidc_config_url # None /\ auth_scheme = None
    THEN [auth_scheme |-> IF outcome \in {"ok", "error_json"}
                          THEN auth_scheme_of(outcome) ELSE None,
          raised |-> outcome \in {"error_text", "RequestError"},
          fetched |-> IF outcome = "ok" THEN 1 ELSE 0]
    ELSE [auth_scheme |-> auth_scheme, raised |-> FALSE, fetched |-> 0]

\* The jwks_client property: the client afterwards, whether OidcFetchError
\* was raised, and whether the document was fetched.
jwks_client_property(client, outcome) ==
    IF client = None
    THEN [client |-> IF outcome = "ok" THEN Some("PyJWKClient") ELSE None,
          raised |-> outcome # "ok",
          fetched |-> IF outcome = "ok" THEN 1 ELSE 0]
    ELSE [client |-> client, raised |-> FALSE, fetched |-> 0]

DiscoveryState(stack_built, auth_scheme, client, extension_fetched,
               enforce_fetched, validations, handled, last_failed, requests) ==
    [stack_built |-> stack_built, auth_scheme |-> auth_scheme,
     jwks_client |-> client, extension_fetched |-> extension_fetched,
     enforce_fetched |-> enforce_fetched, validations |-> validations,
     handled |-> handled, last_failed |-> last_failed, requests |-> requests]

InitDiscovery ==
    /\ discovery = DiscoveryState(FALSE, None, None, 0, 0, 0, 0, FALSE,
                                  [r \in DiscoveryRequestIds |-> "idle"])
    /\ InitAuthIdle
    /\ InitTxIdle
    /\ InitPipeIdle
    /\ InitMutatorIdle
    /\ InitMatchIdle
    /\ InitOpenApiIdle
    /\ InitLinksIdle
    /\ InitProxyIdle
    /\ InitKeySetIdle
    /\ InitHealthIdle
    /\ InitBasePathIdle
    /\ InitMemoryCacheIdle

\* The first ASGI call builds the middleware stack, which constructs
\* AuthenticationExtensionMiddleware; an exception leaves the stack unbuilt.
BuildMiddlewareStack ==
    /\ ~discovery.stack_built
    /\ \E outcome \in PostInitOutcomes :
          LET made == post_init(Some("oidc_discovery_internal_url"),
                                discovery.auth_scheme, outcome)
          IN  discovery' = [discovery EXCEPT
                  !.stack_built = ~made.raised,
                  !.auth_scheme = made.auth_scheme,
                  !.extension_fetched = @ + made.fetched]
    /\ UNCHANGED notDiscoveryVars

\* A request arrives, with a Bearer token or without an Authorization header.
DiscoveryArrive(r) ==
    /\ discovery.stack_built
    /\ discovery.requests[r] = "idle"
    /\ discovery.handled < MaxDiscoveryRequests
    /\ \E kind \in {"token", "anonymous"} :
          discovery' = [discovery EXCEPT !.requests[r] = kind,
                                         !.handled = @ + 1]
    /\ UNCHANGED notDiscoveryVars

\* EnforceAuthMiddleware.validate_token for the request: only a request that
\* carries a token reaches the jwks_client property.
DiscoveryValidate(r) ==
    /\ discovery.requests[r] \in {"token", "anonymous"}
    /\ \E outcome \in OidcOutcomes :
          LET got == IF discovery.requests[r] = "token"
                     THEN jwks_client_property(discovery.jwks_client, outcome)
                     ELSE [client |-> discovery.jwks_client, raised |-> FALSE,
                           fetched |-> 0]
          IN  discovery' = [discovery EXCEPT
                  !.requests[r] = "validated",
                  !.jwks_client = got.client,
                  !.enforce_fetched = @ + got.fetched,
                  !.last_failed = got.raised,
                  !.validations = IF discovery.requests[r] = "token"
                                  THEN 1 ELSE @]
    /\ UNCHANGED notDiscoveryVars

DiscoveryDone(r) ==
    /\ discovery.requests[r] = "validated"
    /\ discovery' = [discovery EXCEPT !.requests[r] = "idle"]
    /\ UNCHANGED notDiscoveryVars

NextDiscovery ==
    \/ BuildMiddlewareStack
    \/ \E r \in DiscoveryRequestIds :
          \/ DiscoveryArrive(r)
          \/ DiscoveryValidate(r)
          \/ DiscoveryDone(r)

SpecDiscovery == InitDiscovery /\ [][NextDiscovery]_vars

DiscoveryFetched == discovery.extension_fetched + discovery.enforce_fetched

\* C28: the discovery document is not fetched before the first token
\* validation, it is fetched successfully at most once over the life of the
\* process, and a failed fetch leaves the client unset, so that a later
\* request fetches again.
C28_DiscoveryFetchedLazilyOnce ==
    /\ DiscoveryFetched > 0 => discovery.validations > 0
    /\ DiscoveryFetched <= 1
    /\ discovery.last_failed => discovery.jwks_client = None

\* What the code does: EnforceAuthMiddleware by itself fetches the document
\* at the first token validation, successfully at most once, and stays
\* without a client after a failed fetch.
EnforceAuthFetchesLazilyOnce ==
    /\ discovery.enforce_fetched > 0 => discovery.validations > 0
    /\ discovery.enforce_fetched <= 1
    /\ discovery.enforce_fetched = 1 <=> discovery.jwks_client # None
    /\ discovery.last_failed => discovery.jwks_client = None

\* The client was made by a request that came after a failed fetch.
EnforceAuthFetchesLazilyOnce_Witness ==
    /\ discovery.enforce_fetched = 1
    /\ discovery.handled = MaxDiscoveryRequests
    /\ \E r \in DiscoveryRequestIds : discovery.requests[r] = "token"

\* And AuthenticationExtensionMiddleware fetches it once more when it is
\* constructed, before any request.
ExtensionFetchesAtConstruction ==
    (discovery.stack_built /\ discovery.auth_scheme = Some("authorization_endpoint"))
        => discovery.extension_fetched = 1
-----------------------------------------------------------------------------
(* The JWKS behind validate_token: EnforceAuthMiddleware holds one
   jwt.PyJWKClient(jwks_uri), made with the library's defaults, and calls its
   get_signing_key_from_jwt for every token *)

\* The fetches counted within one interval.
MaxFetches == 3

KeySetRequestIds == {"j1", "j2"}

\* Key ids: one the provider has from the start, one it rotates in, one it
\* never has.
Kids == {"k1", "k2", "kx"}

KeySetIdle == [pc |-> "idle", kid |-> "", refresh |-> FALSE]

KeySetState(cache, provider, in_flight, refreshes, requests) ==
    [cache |-> cache, provider |-> provider, in_flight |-> in_flight,
     refreshes |-> refreshes, requests |-> requests]

\* The cached key set, empty when nothing is cached.
CachedKids == IF key_set.cache = None THEN {} ELSE key_set.cache.some

InitKeySet ==
    /\ key_set = KeySetState(None, {"k1"}, 0, 0,
                             [r \in KeySetRequestIds |-> KeySetIdle])
    /\ InitAuthIdle
    /\ InitTxIdle
    /\ InitPipeIdle
    /\ InitMutatorIdle
    /\ InitMatchIdle
    /\ InitOpenApiIdle
    /\ InitLinksIdle
    /\ InitProxyIdle
    /\ InitDiscoveryIdle
    /\ InitHealthIdle
    /\ InitBasePathIdle
    /\ InitMemoryCacheIdle

\* A request with a token signed by key `kid` arrives.
KeySetArrive(r) ==
    /\ key_set.requests[r].pc = "idle"
    /\ \E kid \in Kids :
          key_set' = [key_set EXCEPT !.requests[r] =
                         [pc |-> "arrived", kid |-> kid, refresh |-> FALSE]]
    /\ UNCHANGED notKeySetVars

\* validate_token reaches get_signing_key_from_jwt: a kid of the cached key
\* set is answered from the cache, any other kid starts a fetch of the JWKS.
\* The fetch is a blocking call inside validate_token, so no other request
\* runs until it is over.
KeySetLookup(r) ==
    /\ key_set.requests[r].pc = "arrived"
    /\ key_set.in_flight = 0
    /\ IF key_set.requests[r].kid \in CachedKids
       THEN key_set' = [key_set EXCEPT !.requests[r].pc = "found"]
       ELSE /\ key_set.refreshes < MaxFetches
            /\ key_set' = [key_set EXCEPT
                    !.requests[r].pc = "fetching",
                    !.requests[r].refresh = key_set.cache # None,
                    !.in_flight = @ + 1,
                    !.refreshes = IF key_set.cache # None THEN @ + 1 ELSE @]
    /\ UNCHANGED notKeySetVars

\* The fetch returns the provider's keys, which are cached. When this was
\* the first load of the key set and the kid is not in it, get_signing_key
\* fetches again with refresh=True.
KeySetFetched(r) ==
    /\ key_set.requests[r].pc = "fetching"
    /\ LET kid == key_set.requests[r].kid
           again == /\ ~key_set.requests[r].refresh
                    /\ kid \notin key_set.provider
                    /\ key_set.refreshes < MaxFetches
       IN  key_set' = [key_set EXCEPT
               !.cache = Some(key_set.provider),
               !.in_flight = IF again THEN @ ELSE @ - 1,
               !.refreshes = IF again THEN @ + 1 ELSE @,
               !.requests[r].refresh = again \/ @,
               !.requests[r].pc =
                   IF again THEN "fetching"
                   ELSE IF kid \in key_set.provider THEN "found"
                   ELSE "PyJWKClientError"]
    /\ UNCHANGED notKeySetVars

KeySetDone(r) ==
    /\ key_set.requests[r].pc \in {"found", "PyJWKClientError"}
    /\ key_set' = [key_set EXCEPT !.requests[r] = KeySetIdle]
    /\ UNCHANGED notKeySetVars

\* The provider rotates a key in.
RotateKeys ==
    /\ key_set.provider = {"k1"}
    /\ key_set' = [key_set EXCEPT !.provider = {"k1", "k2"}]
    /\ UNCHANGED notKeySetVars

\* A new interval begins.
NewInterval ==
    /\ key_set.refreshes > 0
    /\ key_set.in_flight = 0
    /\ key_set' = [key_set EXCEPT !.refreshes = 0]
    /\ UNCHANGED notKeySetVars

NextKeySet ==
    \/ RotateKeys
    \/ NewInterval
    \/ \E r \in KeySetRequestIds :
          \/ KeySetArrive(r)
          \/ KeySetLookup(r)
          \/ KeySetFetched(r)
          \/ KeySetDone(r)

SpecKeySet == InitKeySet /\ [][NextKeySet]_vars

\* C29: a JWKS refresh happens only for a token whose kid is not in the
\* cached key set, at most one refresh is in flight at any time, and at most
\* one refresh is performed per interval, however many requests present
\* unknown kids.
C29_RefreshRateLimited ==
    /\ \A r \in KeySetRequestIds :
          (key_set.requests[r].pc = "fetching" /\ key_set.requests[r].refresh)
              => key_set.requests[r].kid \notin CachedKids
    /\ key_set.in_flight <= 1
    /\ key_set.refreshes <= 1

\* What the code does: a refresh is made only for a kid that is not in the
\* cached key set, and one at a time.
RefreshOnlyOnUnknownKid ==
    /\ \A r \in KeySetRequestIds :
          (key_set.requests[r].pc = "fetching" /\ key_set.requests[r].refresh)
              => key_set.requests[r].kid \notin CachedKids
    /\ key_set.in_flight <= 1

\* A refresh is in flight for one request while another waits with an
\* unknown kid.
RefreshOnlyOnUnknownKid_Witness ==
    \E r, q \in KeySetRequestIds :
        /\ r # q
        /\ key_set.requests[r].pc = "fetching" /\ key_set.requests[r].refresh
        /\ key_set.requests[q].pc = "arrived"
        /\ key_set.requests[q].kid \notin CachedKids
-----------------------------------------------------------------------------
(* check_server_health: utils/lifespan.py *)

\* The largest max_retries given to check_server_health.
MaxRetriesArg == 4

\* What a probe gets: a response status, or None when client.get raised
\* (no connection, timeout).
ProbeOutcomes == {Some(200), Some(204), Some(304), Some(404), Some(503), None}

\* response.raise_for_status() returns only for a 2xx response.
is_success(outcome) ==
    outcome # None /\ outcome.some >= 200 /\ outcome.some <= 299

\* A delay that doubles without a ceiling.
retry_in_uncapped(retry_delay, attempt, retry_delay_max) ==
    retry_delay * (2 ^ attempt)

\* retry_in = min(retry_delay * (2**attempt), retry_delay_max)
retry_in(retry_delay, attempt, retry_delay_max) ==
    IF retry_delay * (2 ^ attempt) <= retry_delay_max
    THEN retry_delay * (2 ^ attempt)
    ELSE retry_delay_max

HealthCheck(max_retries, retry_delay, retry_delay_max) ==
    [pc |-> "start", max_retries |-> max_retries, retry_delay |-> retry_delay,
     retry_delay_max |-> retry_delay_max, attempt |-> 0, probes |-> <<>>,
     sleeps |-> <<>>, startup |-> "running"]

InitHealth ==
    /\ health \in {HealthCheck(max_retries, retry_delay, retry_delay_max) :
                      max_retries \in 0..MaxRetriesArg,
                      retry_delay \in {1, 2}, retry_delay_max \in {1, 5}}
    /\ InitAuthIdle
    /\ InitTxIdle
    /\ InitPipeIdle
    /\ InitMutatorIdle
    /\ InitMatchIdle
    /\ InitOpenApiIdle
    /\ InitLinksIdle
    /\ InitProxyIdle
    /\ InitDiscoveryIdle
    /\ InitKeySetIdle
    /\ InitBasePathIdle
    /\ InitMemoryCacheIdle

\* The lifespan awaits check_server_health: `for attempt in
\* range(max_retries)` is entered, or left at once and RuntimeError raised.
HealthStart ==
    /\ health.pc = "start"
    /\ health' = IF health.max_retries = 0
                 THEN [health EXCEPT !.pc = "raised", !.startup = "aborted"]
                 ELSE [health EXCEPT !.pc = "probe"]
    /\ UNCHANGED notHealthVars

\* One probe: client.get and raise_for_status.
HealthProbe ==
    /\ health.pc = "probe"
    /\ \E outcome \in ProbeOutcomes :
          health' = [health EXCEPT
              !.probes = Append(@, outcome),
              !.pc = IF is_success(outcome) THEN "returned" ELSE "sleep",
              !.startup = IF is_success(outcome) THEN "started" ELSE @]
    /\ UNCHANGED notHealthVars

\* The sleep after a failed probe, and the end of the loop after it.
HealthSleep ==
    /\ health.pc = "sleep"
    /\ LET last == health.attempt + 1 = health.max_retries
       IN  health' = [health EXCEPT
               !.sleeps = Append(@, retry_in(health.retry_delay, health.attempt,
                                             health.retry_delay_max)),
               !.attempt = @ + 1,
               !.pc = IF last THEN "raised" ELSE "probe",
               !.startup = IF last THEN "aborted" ELSE @]
    /\ UNCHANGED notHealthVars

NextHealth == HealthStart \/ HealthProbe \/ HealthSleep

SpecHealth == InitHealth /\ [][NextHealth]_vars

\* The event loop runs the coroutine: every probe ends within its timeout
\* and every sleep ends.
SpecHealthFair == SpecHealth /\ WF_vars(NextHealth)

HealthTerminated == health.pc \in {"returned", "raised"}

\* min(retry_delay * 2^k, retry_delay_max)
Backoff(k) ==
    LET doubled == health.retry_delay * (2 ^ k)
    IN  IF doubled < health.retry_delay_max THEN doubled
        ELSE health.retry_delay_max

\* No probe follows a 2xx response, which makes the function return; all
\* probes failed when it raises, exactly max_retries of them, and startup is
\* aborted; the k-th failed probe (k from 0) is followed by a sleep of
\* min(retry_delay * 2^k, retry_delay_max).
HealthCheckSafe ==
    /\ \A i \in 1..Len(health.probes) :
          is_success(health.probes[i])
              <=> (i = Len(health.probes) /\ health.pc = "returned")
    /\ health.pc = "returned" =>
          /\ health.probes # <<>>
          /\ health.startup = "started"
    /\ health.pc = "raised" =>
          /\ Len(health.probes) = health.max_retries
          /\ Len(health.sleeps) = health.max_retries
          /\ health.startup = "aborted"
    /\ health.startup = "aborted" => health.pc = "raised"
    /\ Len(health.sleeps) = Len(health.probes)
          - (IF health.pc \in {"sleep", "returned"} THEN 1 ELSE 0)
    /\ \A k \in 0..(Len(health.sleeps) - 1) : health.sleeps[k + 1] = Backoff(k)

\* C30: check_server_health always terminates; it returns at the first
\* probe that gets a 2xx response and probes no further; when every probe
\* fails it makes exactly max_retries probes, sleeps
\* min(retry_delay * 2^k, retry_delay_max) after the k-th failed one, and
\* raises RuntimeError, which aborts startup.
C30_HealthCheckTerminates == []HealthCheckSafe /\ <>HealthTerminated

\* Every probe failed and the delay reached its ceiling before RuntimeError
\* was raised.
C30_Witness ==
    /\ health.pc = "raised"
    /\ Len(health.probes) = MaxRetriesArg
    /\ health.retry_delay = 1 /\ health.retry_delay_max = 5
    /\ health.sleeps = <<1, 2, 4, 5>>

\* A probe succeeded after failed ones and the function returned.
C30_WitnessReturned ==
    /\ health.pc = "returned"
    /\ Len(health.probes) = 3
    /\ Len(health.sleeps) = 2
-----------------------------------------------------------------------------
(* What a response mutator has sent, and when *)

\* The messages sent are a start message followed by one body message that
\* ends the response.
OneStartOneBody(sent) ==
    /\ Len(sent) = 2
    /\ sent[1].type = "http.response.start"
    /\ sent[2].type = "http.response.body"
    /\ sent[2].more_body = FALSE

\* C31: for a response it transforms, the mutator sends nothing until it has
\* received the final body chunk of the upstream; what it sends then is one
\* response-start message followed by one body message with more_body false,
\* and no body message ever precedes the start message.
C31_NothingSentBeforeLastChunk ==
    \A r \in MutRequestIds :
        LET p == mutator[r] IN
        (p.pc \in {"respond", "done"} /\ p.transform) =>
            /\ p.pending # <<>> => p.sent = <<>>
            /\ p.sent # <<>> => OneStartOneBody(p.sent)

\* A response whose body came in two chunks was transformed and released.
C31_Witness ==
    \E r \in MutRequestIds :
        /\ MutTransformed(mutator[r])
        /\ Len(mut_messages(mutator[r].reply)) = 3
        /\ OneStartOneBody(mutator[r].sent)

\* The response validator of the filter stages does the same: nothing is sent
\* while a message of the upstream is outstanding, and then one start and one
\* body message.
ValidatorSendsOnce ==
    \A r \in PipeRequestIds :
        LET p == pipe[r] IN
        (p.pc \in {"respond", "done"} /\ p.send = "buffered") =>
            /\ p.pending # <<>> => p.sent = <<>>
            /\ p.sent # <<>> => OneStartOneBody(p.sent)
-----------------------------------------------------------------------------
(* Concurrent writes to one record through the transaction validator *)

\* Two callers, with and without a filter, write to the same item; each
\* request goes through the steps of SpecTx, in any interleaving.
TxRaceIds == {"w1", "w2"}
TxRaceMethods == {"PUT", "PATCH", "DELETE"}
TxRaceBodies == {JsonBody(d) : d \in {DocAllowed, DocDenied, PatchName}}

InitTxRace ==
    /\ upstream \in {[p \in TxRecordPaths |->
                        IF p = TxItemPath THEN item ELSE Some(DocAllowed)] :
                     item \in {Some(DocAllowed), Some(DocDenied)}}
    /\ tx = [r \in TxRaceIds |-> TxIdle]
    /\ InitAuthIdle
    /\ InitPipeIdle
    /\ InitMatchIdle
    /\ InitMutatorIdle
    /\ InitOpenApiIdle
    /\ InitLinksIdle
    /\ InitProxyIdle
    /\ InitDiscoveryIdle
    /\ InitKeySetIdle
    /\ InitHealthIdle
    /\ InitBasePathIdle
    /\ InitMemoryCacheIdle

\* A write to the item arrives.
TxRaceArrive(r) ==
    /\ tx[r].pc = "idle"
    /\ \E method \in TxRaceMethods, body \in TxRaceBodies, filter \in TxFilters :
          tx' = [tx EXCEPT ![r] = TxRequest("call", method, TxItemPath, body, filter)]
    /\ UNCHANGED <<upstream, notTxVars>>

NextTxRace ==
    \E r \in TxRaceIds :
        \/ TxRaceArrive(r)
        \/ TxCall(r)
        \/ TxHandleUpdate(r)
        \/ TxHandleDelete(r)
        \/ TxForward(r)
        \/ TxDone(r)

SpecTxRace == InitTxRace /\ [][NextTxRace]_vars

\* Request r, validated against a filter, is about to be applied upstream.
TxValidatedWrite(r) ==
    /\ tx[r].pc = "forward"
    /\ tx[r].cql2_filter # None
    /\ tx[r].fetched

\* The record as the upstream holds it matches the filter of request r.
TxRecordMatches(r) ==
    /\ upstream[tx[r].path] # None
    /\ matches(tx[r].cql2_filter.some, upstream[tx[r].path].some) = "true"

\* C32: every PUT, PATCH or DELETE that the validator forwards is applied by
\* the upstream to a record that matches the caller's filter at the moment
\* the write is applied, whatever other requests did since the validator
\* fetched and checked the record.
C32_WriteAppliedToMatchingRecord ==
    [][\A r \in TxRaceIds :
          (TxValidatedWrite(r) /\ tx'[r].pc = "done") => TxRecordMatches(r)]_vars

\* What the code does: the record matched the filter when the validator
\* fetched it.
WriteValidatedAgainstFetchedRecord ==
    \A r \in TxRaceIds :
        TxValidatedWrite(r) =>
            /\ tx[r].existing # None
            /\ matches(tx[r].cql2_filter.some, tx[r].existing.some) = "true"

\* A validated write waits to be applied while the record has been moved out
\* of the caller's filter by another request.
WriteValidatedAgainstFetchedRecord_Witness ==
    \E r \in TxRaceIds :
        /\ TxValidatedWrite(r)
        /\ tx[r].method = "DELETE"
        /\ upstream[TxItemPath] = Some(DocDenied)
-----------------------------------------------------------------------------
(* How EnforceAuthMiddleware ends *)

\* C33: for every HTTP request EnforceAuthMiddleware either invokes the next
\* stage or sends a 401/403 JSON response; no exception leaves it, also not
\* for a validated token without a scope claim on an endpoint with required
\* scopes, nor when the OIDC discovery fetch fails.
C33_NextOrErrorResponse ==
    /\ auth_result.kind \in {"idle", "next", "response"}
    /\ auth_result.kind = "response" =>
          /\ auth_result.status_code \in {401, 403}
          /\ auth_result.body # None

\* What the code does: the exceptions that leave __call__ are those that
\* validate_token does not turn into an HTTPException.
OnlyUncaughtExceptionsEscape ==
    auth_result.kind = "raised" =>
        /\ auth_result.exc \in {"KeyError", "OidcFetchError", "PyJWKClientError"}
        /\ auth_request.authorization # None
        /\ auth_result.exc = "KeyError" =>
              LET token == token_of(Split(auth_request.authorization.some, Space)[2])
              IN  ~token.has_scope /\ jwt_decode(token, allowed_jwt_audiences) = "ok"

\* A valid token without a scope claim, on an endpoint with required scopes,
\* ended the middleware with a KeyError.
OnlyUncaughtExceptionsEscape_Witness ==
    /\ auth_result.kind = "raised"
    /\ auth_result.exc = "KeyError"
-----------------------------------------------------------------------------
(* Item-creating requests and the transaction validator *)

TxItemsPath == <<"collections", "c1", "items">>
TxBulkItemsPath == <<"collections", "c1", "bulk_items">>

\* The items that a POST to path with this JSON body asks the upstream to
\* create.
created_items(path, doc) ==
    IF path # TxBulkItemsPath THEN {doc}
    ELSE IF "items" \in Keys(doc) /\ IsDict(doc.obj["items"])
    THEN {doc.obj["items"].obj[k] : k \in Keys(doc.obj["items"])}
    ELSE {}

\* Request r, with a filter attached, creates items and was handed to the
\* next stage.
TxItemCreationForwarded(r, paths) ==
    /\ tx[r].cql2_filter # None
    /\ tx[r].method = "POST"
    /\ tx[r].path \in paths
    /\ TxForwarded(r)

TxCreatedItemsMatch(r) ==
    /\ tx[r].body # InvalidJsonBody
    /\ \A item \in created_items(tx[r].path, body_json(tx[r].body)) :
          matches(tx[r].cql2_filter.some, item) = "true"

\* C34: with a filter attached, every request that creates items, a POST to
\* /collections/{id}/bulk_items included, is checked against the filter
\* before it is forwarded: every item of a forwarded request matches.
C34_ItemCreationValidated ==
    \A r \in TxRequestIds :
        TxItemCreationForwarded(r, {TxItemsPath, TxBulkItemsPath}) =>
            TxCreatedItemsMatch(r)

\* What the code does: a POST to /collections/{id}/items is validated.
ItemsPostValidated ==
    \A r \in TxRequestIds :
        TxItemCreationForwarded(r, {TxItemsPath}) => TxCreatedItemsMatch(r)

ItemsPostValidated_Witness ==
    \E r \in TxRequestIds :
        /\ TxItemCreationForwarded(r, {TxItemsPath})
        /\ tx[r].body = JsonBody(DocAllowed)

\* What the code does: a POST to /collections/{id}/bulk_items is handed on
\* with whatever body it has.
BulkItemsPostForwarded ==
    \A r \in TxRequestIds :
        (/\ tx[r].cql2_filter # None
         /\ tx[r].method = "POST"
         /\ tx[r].path = TxBulkItemsPath
         /\ tx[r].pc \in {"forward", "done"}) =>
            tx[r].result = TxNext(tx[r].body)
-----------------------------------------------------------------------------
(* The query string that append_qs_filter produces, parsed again *)

\* The parameters of a query string other than filter and filter-lang.
OtherFields(qs) ==
    SelectSeq(parse_qsl(qs), LAMBDA i : i.k \notin {<<"filter">>, <<"filter-lang">>})

\* How often a parameter with this name and value occurs.
Occurrences(fields, item) == Len(SelectSeq(fields, LAMBDA i : i = item))

SameFields(a, b) ==
    \A item \in Range(a) \cup Range(b) : Occurrences(a, item) = Occurrences(b, item)

\* The serialization of the generated filter combined with the caller's, in
\* the language of the caller's filter-lang (cql2-text when there is none).
CombinedFilterValue(received, generated) ==
    LET caller == first_values(parse_qsl(received), <<>>)
        cur == dict_get(caller, <<"filter">>, None)
        combined == IF truthy(cur) THEN And(generated, Expr(cur).some) ELSE generated
    IN  IF dict_get(caller, <<"filter-lang">>, Text(<<"cql2-text">>)) = Text(<<"cql2-text">>)
        THEN Text(to_text(combined))
        ELSE Text(json_dumps(to_json(combined)))

\* Parsing `next` yields one filter parameter, the combined expression, and
\* the other parameters of `received` with their values.
QueryRoundTrips(received, next, generated) ==
    /\ FieldsNamed(next, <<"filter">>) =
          <<Item(<<"filter">>, CombinedFilterValue(received, generated))>>
    /\ SameFields(OtherFields(received), OtherFields(next))

\* Request p had its query string rewritten by append_qs_filter.
QueryRewritten(p) ==
    /\ p.method = "GET"
    /\ IsListEndpoint(p.path)
    /\ p.seen # None
    /\ PipeForwarded(p)

\* A value of the query string holds a quoted "&" or "=".
HasQuoted(qs) == InList("%26", qs) \/ InList("%3D", qs)

\* A parameter occurs more than once in the query string.
HasRepeated(qs) ==
    \E i, j \in 1..Len(parse_qsl(qs)) : i # j /\ parse_qsl(qs)[i].k = parse_qsl(qs)[j].k

\* C35: for every incoming query string and every filter, parsing the query
\* string that append_qs_filter produces yields exactly one filter parameter,
\* whose value is the serialization of the combined expression, and every
\* other parameter of the incoming query string with its original values;
\* quoted characters in a value and repeated parameters neither split nor
\* drop nor add parameters.
C35_QueryStringRoundTrips ==
    \A r \in PipeRequestIds :
        QueryRewritten(pipe[r]) =>
            QueryRoundTrips(pipe[r].query_string, pipe[r].next_query_string,
                            pipe[r].seen.some)

\* What the code does: the round trip holds for the query strings without
\* quoted characters and without repeated parameters.
QueryRoundTripsUnlessQuotedOrRepeated ==
    \A r \in PipeRequestIds :
        (/\ QueryRewritten(pipe[r])
         /\ ~HasQuoted(pipe[r].query_string)
         /\ ~HasRepeated(pipe[r].query_string)) =>
            QueryRoundTrips(pipe[r].query_string, pipe[r].next_query_string,
                            pipe[r].seen.some)

QueryRoundTripsUnlessQuotedOrRepeated_Witness ==
    \E r \in PipeRequestIds :
        /\ QueryRewritten(pipe[r])
        /\ ~HasQuoted(pipe[r].query_string)
        /\ ~HasRepeated(pipe[r].query_string)
        /\ FieldsNamed(pipe[r].query_string, <<"filter">>) # <<>>
        /\ OtherFields(pipe[r].query_string) # <<>>
-----------------------------------------------------------------------------
(* RemoveRootPathMiddleware: middleware/RemoveRootPathMiddleware.py *)

\* Paths are strings, written as sequences of atoms: /api/collections is
\* <<"/", "api", "/", "collections">>, /apiary is <<"/", "api", "ary">>.

\* Longest request path, in atoms.
MaxPathLen == 4

PathAtoms == {"/", "api", "ary", "collections"}

\* The paths a server hands to the application begin with "/".
RequestPaths == {p \in SeqsUpTo(PathAtoms, MaxPathLen) : p # <<>> /\ p[1] = "/"}

BasePaths == {<<"/", "api">>, <<"/", "api", "/">>, <<"/", "api", "/", "collections">>}

\* The scope of a request: the path it arrived with, scope["path"] and
\* scope["raw_path"].
Scope(pc, received, path, raw_path) ==
    [pc |-> pc, received |-> received, path |-> path, raw_path |-> raw_path]

\* path[len(base_path):] or "/"
strip_prefix(path, prefix) ==
    IF Len(path) = Len(prefix) THEN <<"/">>
    ELSE SubSeq(path, Len(prefix) + 1, Len(path))

\* The body of __call__ before the next app is awaited.
strip_base_path(sc, prefix) ==
    IF startswith(sc.path, prefix)
    THEN [sc EXCEPT !.raw_path = Some(sc.path), !.path = strip_prefix(sc.path, prefix)]
    ELSE sc

InitBasePath ==
    /\ base_path \in BasePaths
    /\ asgi_scope = None
    /\ InitAuthIdle
    /\ InitTxIdle
    /\ InitPipeIdle
    /\ InitMatchIdle
    /\ InitMutatorIdle
    /\ InitOpenApiIdle
    /\ InitLinksIdle
    /\ InitProxyIdle
    /\ InitDiscoveryIdle
    /\ InitKeySetIdle
    /\ InitHealthIdle
    /\ InitMemoryCacheIdle

\* An http request reaches the middleware.
BasePathArrive ==
    /\ asgi_scope = None
    /\ \E path \in RequestPaths :
          asgi_scope' = Some(Scope("call", path, path, None))
    /\ UNCHANGED <<base_path, notBasePathVars>>

\* RemoveRootPathMiddleware.__call__ up to `await self.app(...)`.
RemoveRootPathMiddleware_call ==
    /\ asgi_scope # None
    /\ asgi_scope.some.pc = "call"
    /\ asgi_scope' = Some([strip_base_path(asgi_scope.some, base_path) EXCEPT !.pc = "app"])
    /\ UNCHANGED <<base_path, notBasePathVars>>

\* The later stages are done with the request.
BasePathDone ==
    /\ asgi_scope # None
    /\ asgi_scope.some.pc = "app"
    /\ asgi_scope' = None
    /\ UNCHANGED <<base_path, notBasePathVars>>

NextBasePath == BasePathArrive \/ RemoveRootPathMiddleware_call \/ BasePathDone

SpecBasePath == InitBasePath /\ [][NextBasePath]_vars

\* The later stages see the request.
PathStripped == asgi_scope # None /\ asgi_scope.some.pc = "app"

\* The base path is a whole leading sequence of segments of the path.
IsLeadingSegments(path, prefix) ==
    /\ startswith(path, prefix)
    /\ Len(path) = Len(prefix) \/ path[Len(prefix) + 1] = "/"

\* C36: the path that the stages after the base-path strip see begins with
\* "/"; the base path is removed only when it is a whole leading sequence of
\* segments of the request path, a path equal to the base path becomes "/",
\* and any other path is left unchanged.
C36_StrippedPathBeginsWithSlash ==
    PathStripped =>
        LET sc == asgi_scope.some IN
        /\ sc.path # <<>> /\ sc.path[1] = "/"
        /\ IF IsLeadingSegments(sc.received, base_path)
           THEN sc.path = strip_prefix(sc.received, base_path)
           ELSE sc.path = sc.received

\* What the code does: the base path is removed from every path that begins
\* with its characters, and a path equal to it becomes "/".
PrefixStripped ==
    PathStripped =>
        LET sc == asgi_scope.some IN
        /\ sc.received = base_path => sc.path = <<"/">>
        /\ startswith(sc.received, base_path) =>
              /\ sc.path = strip_prefix(sc.received, base_path)
              /\ sc.raw_path = Some(sc.received)
        /\ ~startswith(sc.received, base_path) =>
              sc.path = sc.received /\ sc.raw_path = None
        /\ IsLeadingSegments(sc.received, base_path) => sc.path[1] = "/"

\* /api/collections was stripped of /api.
PrefixStripped_Witness ==
    /\ PathStripped
    /\ base_path = <<"/", "api">>
    /\ asgi_scope.some.received = <<"/", "api", "/", "collections">>
    /\ asgi_scope.some.path = <<"/", "collections">>
-----------------------------------------------------------------------------
(* Body messages without the more_body key *)

\* The reply of the next app with its last body message sent without the
\* more_body key.
WithoutMoreBodyKey(reply) == [reply EXCEPT !.more_body_key = FALSE]
WithMoreBodyKey(reply) == [reply EXCEPT !.more_body_key = TRUE]

\* A request arrives; the next app will end its response with or without the
\* more_body key.
LastChunkArrive(r) ==
    /\ mutator[r].pc = "idle"
    /\ \E path \in MutPaths, reply \in MutReplies, claims \in MutClaims,
          more_body_key \in BOOLEAN :
          /\ mutator' = [mutator EXCEPT ![r] =
                MutRequest("call", path,
                           IF more_body_key THEN reply ELSE WithoutMoreBodyKey(reply),
                           claims)]
          /\ scope_state' = [scope_state EXCEPT ![r] = ScopeState(Some(claims), None)]
    /\ UNCHANGED <<cells, notMutatorVars>>

NextLastChunk ==
    \E r \in MutRequestIds :
        \/ LastChunkArrive(r)
        \/ MutCall(r)
        \/ MutSend(r)
        \/ MutDone(r)

\* The response mutator with next apps that end their responses either way.
SpecLastChunk == InitMutator /\ [][NextLastChunk]_vars

\* The mutator has seen a whole response, to be transformed, whose last body
\* message had no more_body key.
LastChunkWithoutKey(p) ==
    MutFinished(p) /\ p.transform /\ ~p.reply.more_body_key

\* C37: a mutator that is transforming a response treats a body message
\* without a more_body key as the last chunk: it completes the transformation
\* and sends the response, exactly as for a message with more_body false; it
\* does not raise.
C37_MissingMoreBodyIsLastChunk ==
    \A r \in MutRequestIds :
        LET p == mutator[r]
            expected == MutOwnOutcome([p EXCEPT !.reply = WithMoreBodyKey(p.reply)])
        IN  LastChunkWithoutKey(p) =>
                /\ p.raised = expected.raised
                /\ p.sent = expected.sent

\* What the code does: the mutator raises KeyError at the body message
\* without the key and sends nothing.
MissingMoreBodyRaises ==
    \A r \in MutRequestIds :
        LastChunkWithoutKey(mutator[r]) =>
            /\ mutator[r].raised = Some("KeyError")
            /\ mutator[r].sent = <<>>

\* A JSON response in two body messages, the second without the key, ended
\* with KeyError.
MissingMoreBodyRaises_Witness ==
    \E r \in MutRequestIds :
        /\ LastChunkWithoutKey(mutator[r])
        /\ Len(mut_messages(mutator[r].reply)) = 3
        /\ MutNotJson(mutator[r].reply) = FALSE
        /\ mutator[r].raised = Some("KeyError")

\* A response that is not transformed is handed on as it is, with or without
\* the key.
UntransformedHandedOn ==
    \A r \in MutRequestIds :
        (MutFinished(mutator[r]) /\ ~mutator[r].transform) =>
            mutator[r].sent = mut_messages(mutator[r].reply)
-----------------------------------------------------------------------------
(* MemoryCache: utils/filters.py *)

\* Latest time of the clock, in seconds.
MaxTime == 4

\* MemoryCache.get_value_by_path(obj, path): None where the path leaves the
\* dicts.
RECURSIVE get_value_by_path(_, _)
get_value_by_path(obj, path) ==
    IF path = <<>> THEN obj
    ELSE IF obj = None \/ ~IsDict(obj) THEN None
    ELSE get_value_by_path(IF Head(path) \in Keys(obj) THEN obj.obj[Head(path)] ELSE None,
                           Tail(path))

\* The contexts of the calls: a token payload with a sub, a payload that is
\* not a dict, and no payload.
CachePath == <<"payload", "sub">>
CacheContexts ==
    {Single("payload", Single("sub", Str(u))) : u \in {"u1", "u2"}}
    \cup {Single("payload", Str("anonymous")), EmptyObj}
CacheKeys == {get_value_by_path(ctx, CachePath) : ctx \in CacheContexts}
CacheValues == {"f1", "f2"}
CacheTtls == {1, 2}

\* An entry of the cache dict: (value, timestamp).
CacheEntry(value, timestamp) == [value |-> value, timestamp |-> timestamp]
EmptyCache == [k \in CacheKeys |-> None]

\* MemoryCache.prune: the entries with time_entered > time() - ttl.
prune(entries, ttl, time) ==
    [k \in DOMAIN entries |->
        IF entries[k] # None /\ entries[k].some.timestamp > time - ttl
        THEN entries[k] ELSE None]

\* MemoryCache.set(ctx, value): the cache dict afterwards.
MemoryCache_set_dict(mc, ctx, value, time) ==
    LET key == get_value_by_path(ctx, mc.key)
    IN  prune([mc.cache EXCEPT ![key] = Some(CacheEntry(value, time))], mc.ttl, time)

\* MemoryCache.get(ctx): the cached result, or None.
MemoryCache_get_result(mc, ctx, time) ==
    LET key == get_value_by_path(ctx, mc.key)
    IN  IF mc.cache[key] = None THEN None
        ELSE IF time - mc.cache[key].some.timestamp <= mc.ttl
        THEN Some(mc.cache[key].some.value)
        ELSE None

\* The last call and its time, every entry ever set, and what the last prune
\* removed.
CacheLog(op, at, ctx, result, stored, removed) ==
    [op |-> op, at |-> at, ctx |-> ctx, result |-> result, stored |-> stored,
     removed |-> removed]

InitMemoryCache ==
    /\ \E ttl \in CacheTtls :
          memory_cache = Some([key |-> CachePath, ttl |-> ttl, cache |-> EmptyCache])
    /\ cache_clock = 0
    /\ cache_log = Some(CacheLog("none", 0, EmptyObj, None, EmptyCache, {}))
    /\ InitAuthIdle
    /\ InitTxIdle
    /\ InitPipeIdle
    /\ InitMatchIdle
    /\ InitMutatorIdle
    /\ InitOpenApiIdle
    /\ InitLinksIdle
    /\ InitProxyIdle
    /\ InitDiscoveryIdle
    /\ InitKeySetIdle
    /\ InitHealthIdle
    /\ InitBasePathIdle

\* A second passes.
CacheTick ==
    /\ cache_clock < MaxTime
    /\ cache_clock' = cache_clock + 1
    /\ UNCHANGED <<memory_cache, cache_log, notMemoryCacheVars>>

\* MemoryCache.set, with the prune it ends with.
MemoryCache_set ==
    \E ctx \in CacheContexts, value \in CacheValues :
        LET mc == memory_cache.some
            key == get_value_by_path(ctx, mc.key)
            entry == Some(CacheEntry(value, cache_clock))
            before == [mc.cache EXCEPT ![key] = entry]
            after == MemoryCache_set_dict(mc, ctx, value, cache_clock)
        IN  /\ memory_cache' = Some([mc EXCEPT !.cache = after])
            /\ cache_log' = Some(CacheLog("set", cache_clock, ctx, None,
                                          [cache_log.some.stored EXCEPT ![key] = entry],
                                          {before[k].some : k \in {j \in CacheKeys :
                                              before[j] # None /\ after[j] = None}}))
            /\ UNCHANGED <<cache_clock, notMemoryCacheVars>>

\* MemoryCache.get
MemoryCache_get ==
    \E ctx \in CacheContexts :
        /\ cache_log' = Some([cache_log.some EXCEPT
                                !.op = "get", !.at = cache_clock, !.ctx = ctx,
                                !.removed = {},
                                !.result = MemoryCache_get_result(memory_cache.some, ctx,
                                                                  cache_clock)])
        /\ UNCHANGED <<memory_cache, cache_clock, notMemoryCacheVars>>

NextMemoryCache == CacheTick \/ MemoryCache_set \/ MemoryCache_get

SpecMemoryCache == InitMemoryCache /\ [][NextMemoryCache]_vars

\* The key of the last call.
CacheLastKey == get_value_by_path(cache_log.some.ctx, memory_cache.some.key)

\* What get returned is the value last set under the key of the call, set at
\* most ttl ago.
GetReturnsFreshValueOfKey ==
    LET log == cache_log.some
        entry == log.stored[CacheLastKey]
    IN  (log.op = "get" /\ log.result # None) =>
            /\ entry # None
            /\ log.result = Some(entry.some.value)
            /\ log.at - entry.some.timestamp <= memory_cache.some.ttl

\* No entry that the prune of the last set removed is one that get would
\* still return.
PruneAgreesWithGet ==
    \A entry \in cache_log.some.removed :
        cache_log.some.at - entry.timestamp > memory_cache.some.ttl

\* C38: after any sequence of set and get calls, get returns a stored value
\* only for the key it was stored under and only while the age of the entry
\* is at most ttl, and nothing otherwise; and get and prune agree on expiry:
\* an entry that get would still return is never removed by the prune that
\* set performs.
C38_GetAndPruneAgree ==
    /\ GetReturnsFreshValueOfKey
    /\ PruneAgreesWithGet

\* A get returned the value set one second earlier under another context
\* with the same key.
GetReturnsFreshValueOfKey_Witness ==
    /\ cache_log.some.op = "get"
    /\ cache_log.some.result # None
    /\ cache_log.some.stored[CacheLastKey].some.timestamp < cache_log.some.at

\* What the code does: prune removes the entries whose age is ttl or more.
PruneRemovesAtTtl ==
    \A entry \in cache_log.some.removed :
        cache_log.some.at - entry.timestamp >= memory_cache.some.ttl

PruneRemovesAtTtl_Witness ==
    \E entry \in cache_log.some.removed :
        cache_log.some.at - entry.timestamp = memory_cache.some.ttl

====
